---- MODULE Spec2Model ----
(***************************************************************************)
(* Model of the transactional write path of recipe-share-api:              *)
(*   - the handle allocator (generateUsername / generateUniqueUsername),   *)
(*   - the unit-of-work wrapper withTransaction,                           *)
(*   - the wrapped handlers signUp, createRecipe, updateRecipe,            *)
(*     deleteRecipe and toggleSaveRecipe.                                  *)
(* Strings are sequences of one-character strings.  Document ids are       *)
(* natural numbers handed out by a counter (ObjectIds are never reused).   *)
(* A collection is a function whose DOMAIN is the set of stored ids.       *)
(***************************************************************************)
EXTENDS Integers, Sequences, FiniteSets, TLC

(***************************************************************************)
(* Bounds of the model                                                     *)
(***************************************************************************)
\* number of user ids (seeded users + users that sign up)
MaxUsers == 3
\* number of recipe ids ever handed out
MaxRecipes == 2
\* number of image ids the external storage ever hands out
MaxImages == 2
\* suffix seeds the random generator may draw when running against the database
MaxSeedDb == 1
\* suffix seeds the random generator may draw in the stand-alone allocator runs
MaxSeedAlloc == 6
\* length of the filler that makes an input longer than the truncation length
PadLen == 19
\* length of the varied part of a display name
MaxCoreLen == 3
MaxFairCoreLen == 2

(***************************************************************************)
(* Program constants                                                       *)
(***************************************************************************)
SuffixLen == 6
MaxBaseLen == 20
MaxAttempts == 10
MinPasswordLen == 8
MinNameLen == 3
MaxNameLen == 30

\* an alphabet that keeps one vowel
usernameAlphabet_WithVowel ==
  << "a","b","c","d","f","g","h","j","k","l","m","n","p","q","r","s","t",
     "v","w","x","y","z","2","3","4","5","6","7","8","9" >>

\* line 6: the suffix alphabet, consonants and the digits 2 to 9
usernameAlphabet ==
  << "b","c","d","f","g","h","j","k","l","m","n","p","q","r","s","t","v",
     "w","x","y","z","2","3","4","5","6","7","8","9" >>

(***************************************************************************)
(* Characters and string functions of the JavaScript runtime               *)
(***************************************************************************)
UpperSeq ==
  << "A","B","C","D","E","F","G","H","I","J","K","L","M","N","O","P","Q",
     "R","S","T","U","V","W","X","Y","Z" >>
LowerSeq ==
  << "a","b","c","d","e","f","g","h","i","j","k","l","m","n","o","p","q",
     "r","s","t","u","v","w","x","y","z" >>
DigitChars == {"0","1","2","3","4","5","6","7","8","9"}
LowerChars == {LowerSeq[i] : i \in 1..Len(LowerSeq)}
UpperChars == {UpperSeq[i] : i \in 1..Len(UpperSeq)}
WhiteChars == {" ", "\t"}

ToLowerChar(c) ==
  IF c \in UpperChars
    THEN LowerSeq[CHOOSE i \in 1..Len(UpperSeq) : UpperSeq[i] = c]
    ELSE c

toLowerCase(s) == [i \in 1..Len(s) |-> ToLowerChar(s[i])]

IsWhite(c) == c \in WhiteChars
IsLowerAlnum(c) == c \in LowerChars \cup DigitChars

RECURSIVE trimStart(_)
trimStart(s) ==
  IF s # << >> /\ IsWhite(Head(s)) THEN trimStart(Tail(s)) ELSE s

RECURSIVE trimEnd(_)
trimEnd(s) ==
  IF s # << >> /\ IsWhite(s[Len(s)])
    THEN trimEnd(SubSeq(s, 1, Len(s) - 1))
    ELSE s

trim(s) == trimEnd(trimStart(s))

\* s.replace(/\s+/g, "")
stripWhitespace(s) == SelectSeq(s, LAMBDA c : ~IsWhite(c))

\* s.replace(/[^a-z0-9]/g, "")
stripNonAlnum(s) == SelectSeq(s, IsLowerAlnum)

\* s.substring(0, n)
substring0(s, n) == IF Len(s) <= n THEN s ELSE SubSeq(s, 1, n)

UserLiteral == << "u","s","e","r" >>

generateUsername_NoTruncate(base) ==
  LET sanitized == stripNonAlnum(stripWhitespace(toLowerCase(trim(base))))
  IN  IF sanitized = << >> THEN UserLiteral ELSE sanitized

generateUsername(base) ==
  LET sanitized ==
        substring0(
          stripNonAlnum(stripWhitespace(toLowerCase(trim(base)))),
          MaxBaseLen)
  IN  IF sanitized = << >> THEN UserLiteral ELSE sanitized

\* customAlphabet(usernameAlphabet, 6): six symbols drawn from the alphabet;
\* the draw is determined by the seed k
generateSuffix(k) ==
  [i \in 1..SuffixLen |->
     usernameAlphabet[((k * i) % Len(usernameAlphabet)) + 1]]

(***************************************************************************)
(* State                                                                   *)
(***************************************************************************)
VARIABLES
  \* committed state of the database and of the external image storage
  users, recipes, images, nextUser, nextRecipe, nextImage,
  \* the session of the running unit-of-work and its uncommitted view
  txUsers, txRecipes, txState, txOps, sessionState, endCalls,
  commitCalls, abortCalls,
  \* the running request: position, request data, locals of the body,
  \* the failure caught, the failure raised to the caller, the value returned,
  \* the response object
  pc, req, loc, err, thrown, result, res,
  \* history: database at the start of the run, number of writes issued on
  \* the session, summary of the previous finished run, calls made to the
  \* image pipeline (sharp, cloudinary) and database operations issued
  \* without the session during the run, ids of the recipes whose removal has
  \* committed
  pre, writes, prev, calls, deleted,
  \* the handle allocator
  allocPc, allocBase, username, newUsername, attempts, checks, allocResult,
  lastCand, lastAns, takenRun

dbVars == << users, recipes, images, nextUser, nextRecipe, nextImage >>
txVars == << txUsers, txRecipes, txState, txOps, sessionState, endCalls,
             commitCalls, abortCalls >>
runVars == << pc, req, loc, err, thrown, result, res >>
histVars == << pre, writes, prev, calls, deleted >>
allocVars == << allocPc, allocBase, username, newUsername, attempts, checks,
                allocResult, lastCand, lastAns, takenRun >>
vars == << dbVars, txVars, runVars, histVars, allocVars >>

(***************************************************************************)
(* Handle allocator: generateUniqueUsername                                *)
(* Exists(c) is the answer of model.findOne({username: c}).session(session)*)
(***************************************************************************)
NoString == << >>

AllocIdle ==
  /\ allocPc = "idle"
  /\ allocBase = NoString
  /\ username = NoString
  /\ newUsername = NoString
  /\ attempts = 0
  /\ checks = 0
  /\ allocResult = NoString
  /\ lastCand = NoString
  /\ lastAns = FALSE
  /\ takenRun = 0

\* the allocator is not running
AllocReset ==
  /\ allocPc' = "idle"
  /\ allocBase' = NoString
  /\ username' = NoString
  /\ newUsername' = NoString
  /\ attempts' = 0
  /\ checks' = 0
  /\ allocResult' = NoString
  /\ lastCand' = NoString
  /\ lastAns' = FALSE
  /\ takenRun' = 0

\* entry of generateUniqueUsername(base, model, session)
AllocCall(base) ==
  /\ allocPc' = "first"
  /\ allocBase' = base
  /\ username' = NoString
  /\ newUsername' = NoString
  /\ attempts' = 0
  /\ checks' = 0
  /\ allocResult' = NoString
  /\ lastCand' = NoString
  /\ lastAns' = FALSE
  /\ takenRun' = 0

\* lines 27-32: sanitize, first existence check, early return
AllocCheckBase(taken) ==
  /\ allocPc = "first"
  /\ LET u == generateUsername(allocBase)
         ex == u \in taken
     IN  /\ username' = u
         /\ checks' = checks + 1
         /\ lastCand' = u
         /\ lastAns' = ex
         /\ takenRun' = IF ex THEN takenRun + 1 ELSE 0
         /\ attempts' = 0
         /\ IF ex
              THEN /\ allocPc' = "loop"
                   /\ allocResult' = allocResult
              ELSE /\ allocPc' = "returned"
                   /\ allocResult' = u
  /\ UNCHANGED << allocBase, newUsername >>

\* the exhaustion test of the loop, with an off-by-one limit
AttemptsExhausted_OffByOne(n) == n > MaxAttempts + 1

\* line 37: if (attempts > 10) throw
AttemptsExhausted(n) == n > MaxAttempts

\* the value the loop returns, taken from the wrong variable
LoopResult_Base(base, cand) == base

\* line 45: return newUsername
LoopResult(base, cand) == cand

\* lines 35-45: one iteration of the do-while loop
AllocAttempt(seed, taken) ==
  /\ allocPc = "loop"
  /\ attempts' = attempts + 1
  /\ IF AttemptsExhausted(attempts + 1)
       THEN /\ allocPc' = "exhausted"
            /\ UNCHANGED << newUsername, checks, allocResult, lastCand,
                            lastAns, takenRun >>
       ELSE LET cand == username \o << "." >> \o generateSuffix(seed)
                ex == cand \in taken
            IN  /\ newUsername' = cand
                /\ checks' = checks + 1
                /\ lastCand' = cand
                /\ lastAns' = ex
                /\ takenRun' = IF ex THEN takenRun + 1 ELSE 0
                /\ IF ex
                     THEN /\ allocPc' = "loop"
                          /\ allocResult' = allocResult
                     ELSE /\ allocPc' = "returned"
                          /\ allocResult' = LoopResult(username, cand)
  /\ UNCHANGED << allocBase, username >>

(***************************************************************************)
(* Documents, requests and responses                                       *)
(***************************************************************************)
UserIds == 1..MaxUsers
RecipeIds == 1..MaxRecipes
ImageIds == 1..MaxImages
\* req.user absent
NoCaller == 0
\* an id that no stored user has
GhostUser == MaxUsers + 1
\* req.body.recipeId / req.params.id absent
NoRecipeId == 0

NoError == "none"
\* recipe.image.public_id absent
NoImage == 0
\* a form field that is absent (undefined or the empty string)
Absent == 0
\* the form fields before the body has read them
NoBody == [name |-> Absent, prepTime |-> Absent, nutritionFacts |-> Absent,
           ingredients |-> Absent, instructions |-> Absent]
NoLoc == [isSaved |-> FALSE, savedCount |-> 0, image |-> 0, oldImage |-> 0,
          newId |-> 0, doc |-> << >>, ret |-> "none", body |-> NoBody,
          caught |-> "none"]
\* attempts and successes of optimizeImage, cloudinary.uploader.upload and
\* cloudinary.uploader.destroy
NoCalls == [optimize |-> 0, optimized |-> 0, upload |-> 0, uploaded |-> 0,
            destroy |-> 0, destroyed |-> 0, offSession |-> 0]
\* a JSON text that does not parse
Malformed == -1
\* a JSON text that parses to something that is not an array
NonArray == -2
\* the JSON text "[]"
EmptyArray == -3
\* a fresh express response: statusCode 200, nothing sent
NoRes == [status |-> 200, sent |-> FALSE, success |-> FALSE,
          isSaved |-> FALSE, saveCount |-> 0, image |-> 0]
NoReq == [handler |-> "none", caller |-> NoCaller, recipeId |-> NoRecipeId,
          name |-> << >>, email |-> << >>, pwLen |-> 0, hasFile |-> FALSE]
NoPrev == [handler |-> "none", caller |-> NoCaller, recipeId |-> NoRecipeId,
           ok |-> FALSE, isSaved |-> FALSE, saveCount |-> 0,
           preSavedBy |-> {}, preSavedRecipes |-> {}]
EmptyColl == << >>

\* a collection with document d stored under id
Put(coll, id, d) ==
  [x \in (DOMAIN coll) \cup {id} |-> IF x = id THEN d ELSE coll[x]]

\* a collection without the document stored under id
Remove(coll, id) == [x \in (DOMAIN coll) \ {id} |-> coll[x]]

AdminHandle == << "a","d","m" >>
AdminEmail == << "r","@","x",".","i","o" >>
BobHandle == << "b","o","b" >>
BobEmail == << "b","@","x",".","i","o" >>

\* the users the deployment starts with: an administrator and a creator
SeedUsers ==
  << [username |-> AdminHandle, email |-> AdminEmail, role |-> "admin",
      savedRecipes |-> {}],
     [username |-> BobHandle, email |-> BobEmail, role |-> "creator",
      savedRecipes |-> {}] >>

(***************************************************************************)
(* withTransaction (utils/operations.ts)                                   *)
(***************************************************************************)
\* a guard that reports an active transaction whatever the session holds
inTransaction_Always == TRUE

\* session.inTransaction()
inTransaction == txState \in {"STARTING_TRANSACTION", "TRANSACTION_IN_PROGRESS"}

RunIdle ==
  /\ pc = "idle"
  /\ req = NoReq
  /\ loc = NoLoc
  /\ err = NoError
  /\ thrown = NoError
  /\ result = "none"
  /\ res = NoRes
  /\ txUsers = EmptyColl
  /\ txRecipes = EmptyColl
  /\ txState = "NO_TRANSACTION"
  /\ txOps = 0
  /\ sessionState = "none"
  /\ endCalls = 0
  /\ commitCalls = 0
  /\ abortCalls = 0
  /\ writes = 0
  /\ calls = NoCalls
  /\ pre = [users |-> EmptyColl, recipes |-> EmptyColl, images |-> {}]

\* line 13: a request reaches the wrapped handler and a session is started
StartRun(r) ==
  /\ pc = "idle"
  /\ pc' = "startTransaction"
  /\ req' = r
  /\ sessionState' = "open"
  /\ pre' = [users |-> users, recipes |-> recipes, images |-> images]
  /\ UNCHANGED << dbVars, allocVars, loc, err, thrown, result, res, prev,
                  calls, deleted,
                  writes, txUsers, txRecipes, txState, txOps, endCalls,
                  commitCalls, abortCalls >>

\* first position of the body of each wrapped handler
BodyEntry(h) ==
  CASE h = "toggleSaveRecipe" -> "tg_check"
    [] h = "signUp" -> "su_validate"
    [] h = "createRecipe" -> "cr_validate"
    [] h = "updateRecipe" -> "up_check"
    [] h = "deleteRecipe" -> "de_check"

\* line 17: session.startTransaction(); the session reads a snapshot
StartTransaction ==
  /\ pc = "startTransaction"
  /\ txState' = "STARTING_TRANSACTION"
  /\ txUsers' = users
  /\ txRecipes' = recipes
  /\ txOps' = 0
  /\ pc' = BodyEntry(req.handler)
  /\ UNCHANGED << dbVars, allocVars, histVars, req, loc, err, thrown, result,
                  res, sessionState, endCalls, commitCalls, abortCalls >>

\* the body throws e (line 24 rejects, control enters the catch block)
BodyThrows(e, status) ==
  /\ err' = e
  /\ res' = [res EXCEPT !.status = status]
  /\ pc' = "catch"

\* the body returns v (line 24 resolves)
BodyReturns(v) ==
  /\ loc' = [loc EXCEPT !.ret = v]
  /\ pc' = "commit"

\* a database operation issued without the session option
OpsOffSession(n) == calls' = [calls EXCEPT !.offSession = @ + n]

\* an operation issued on the session makes the transaction in progress
OpsOnSession(n) ==
  /\ txOps' = txOps + n
  /\ txState' = "TRANSACTION_IN_PROGRESS"

\* a commit that is not awaited: control goes on while the commit is pending
CommitTransaction_NotAwaited ==
  /\ pc = "commit"
  /\ commitCalls' = commitCalls + 1
  /\ pc' = "return"
  /\ UNCHANGED << users, recipes, txState, err >>
  /\ UNCHANGED << images, nextUser, nextRecipe, nextImage, allocVars,
                  histVars, req, loc, thrown, result, res, txUsers, txRecipes,
                  txOps, sessionState, endCalls, abortCalls >>

\* the committed collection once a transaction commits: the documents the
\* transaction wrote or removed since its snapshot replace the committed ones
Committed(committed, snap, view) ==
  LET written(id) ==
        id \in DOMAIN view /\ (id \notin DOMAIN snap \/ view[id] # snap[id])
      removed(id) == id \in DOMAIN snap /\ id \notin DOMAIN view
      ids == {id \in (DOMAIN committed) \cup (DOMAIN view) :
                written(id) \/ (id \in DOMAIN committed /\ ~removed(id))}
  IN  [id \in ids |-> IF written(id) THEN view[id] ELSE committed[id]]

\* the ids of the recipes removed so far, once a transaction with the given
\* view of the recipes commits: those it read at its start and no longer holds
DeletedAfter(view) == deleted \cup ((DOMAIN pre.recipes) \ (DOMAIN view))

\* a commit wrapped in a retry: a rejected commit is attempted once more
CommitTransaction_Retried ==
  /\ pc = "commit"
  /\ \E first \in BOOLEAN, second \in BOOLEAN :
       /\ commitCalls' = IF first THEN commitCalls + 1 ELSE commitCalls + 2
       /\ IF first \/ second
            THEN /\ users' = Committed(users, pre.users, txUsers)
                 /\ recipes' = Committed(recipes, pre.recipes, txRecipes)
                 /\ deleted' = DeletedAfter(txRecipes)
                 /\ txState' = "TRANSACTION_COMMITTED"
                 /\ pc' = "return"
                 /\ err' = err
            ELSE /\ txState' = "COMMIT_FAILED"
                 /\ err' = "CommitError"
                 /\ pc' = "catch"
                 /\ UNCHANGED << users, recipes, deleted >>
  /\ UNCHANGED << images, nextUser, nextRecipe, nextImage, allocVars,
                  pre, writes, prev, calls, req, loc, thrown, result, res,
                  txUsers, txRecipes,
                  txOps, sessionState, endCalls, abortCalls >>

\* line 27: await session.commitTransaction()
CommitTransaction ==
  /\ pc = "commit"
  /\ commitCalls' = commitCalls + 1
  /\ \E ok \in BOOLEAN :
       IF ok
         THEN /\ users' = Committed(users, pre.users, txUsers)
              /\ recipes' = Committed(recipes, pre.recipes, txRecipes)
              /\ deleted' = DeletedAfter(txRecipes)
              /\ txState' = "TRANSACTION_COMMITTED"
              /\ pc' = "return"
              /\ err' = err
         ELSE \* the commit is rejected: nothing is applied, the session is no
              \* longer in a transaction, control enters the catch block
              /\ txState' = "COMMIT_FAILED"
              /\ err' = "CommitError"
              /\ pc' = "catch"
              /\ UNCHANGED << users, recipes, deleted >>
  /\ UNCHANGED << images, nextUser, nextRecipe, nextImage, allocVars,
                  pre, writes, prev, calls, req, loc, thrown, result, res,
                  txUsers, txRecipes,
                  txOps, sessionState, endCalls, abortCalls >>

\* line 29: return result
ReturnResult ==
  /\ pc = "return"
  /\ result' = loc.ret
  /\ pc' = "finally"
  /\ UNCHANGED << dbVars, allocVars, histVars, txVars, req, loc, err, thrown,
                  res >>

\* lines 32-35: what the users collection holds after abortTransaction
AbortedUsers(committed, view) == committed

\* lines 32-35: what the recipes collection holds after abortTransaction
AbortedRecipes(committed, view) == committed

\* lines 30-38: catch, guarded abort, re-throw
CatchAbortRethrow ==
  /\ pc = "catch"
  /\ IF inTransaction
       THEN /\ abortCalls' = abortCalls + 1
            /\ \E ok \in BOOLEAN :
                 \/ /\ ok
                    /\ txState' = "TRANSACTION_ABORTED"
                    /\ users' = AbortedUsers(users, txUsers)
                    /\ recipes' = AbortedRecipes(recipes, txRecipes)
                    /\ thrown' = err
                 \/ \* abortTransaction itself rejects; a transaction that
                    \* issued no operation is aborted without a round trip
                    /\ ~ok
                    /\ txState = "TRANSACTION_IN_PROGRESS"
                    /\ thrown' = "AbortError"
                    /\ UNCHANGED << txState, users, recipes >>
       ELSE /\ thrown' = err
            /\ UNCHANGED << abortCalls, txState, users, recipes >>
  /\ pc' = "finally"
  /\ UNCHANGED << images, nextUser, nextRecipe, nextImage, allocVars,
                  histVars, req, loc, err, result, res, txUsers, txRecipes,
                  txOps, sessionState, endCalls, commitCalls >>

\* endSession as the last statement of the try block instead of a finally
\* block: a run that throws leaves without it
EndSession_NotInFinally ==
  /\ pc = "finally"
  /\ sessionState' = IF thrown = NoError THEN "ended" ELSE sessionState
  /\ endCalls' = IF thrown = NoError THEN endCalls + 1 ELSE endCalls
  /\ pc' = "done"
  /\ UNCHANGED << dbVars, allocVars, histVars, req, loc, err, thrown, result,
                  res, txUsers, txRecipes, txState, txOps, commitCalls,
                  abortCalls >>

\* an endSession that leaves a transaction in progress as it is
EndSession_LeavesTransaction ==
  /\ pc = "finally"
  /\ sessionState' = "ended"
  /\ endCalls' = endCalls + 1
  /\ pc' = "done"
  /\ UNCHANGED << dbVars, allocVars, histVars, req, loc, err, thrown, result,
                  res, txUsers, txRecipes, txState, txOps, commitCalls,
                  abortCalls >>

\* lines 39-43: finally, session.endSession(); ending a session whose
\* transaction is still in progress (its abort was rejected) discards that
\* transaction
EndSession ==
  /\ pc = "finally"
  /\ sessionState' = "ended"
  /\ endCalls' = endCalls + 1
  /\ txState' = IF inTransaction THEN "TRANSACTION_ABORTED" ELSE txState
  /\ pc' = "done"
  /\ UNCHANGED << dbVars, allocVars, histVars, req, loc, err, thrown, result,
                  res, txUsers, txRecipes, txOps, commitCalls, abortCalls >>

\* the request is over: its summary is kept, the next request may arrive
Finish(keepSummary) ==
  /\ pc \in {"done", "replied"}
  /\ prev' = IF ~keepSummary THEN prev ELSE
             [handler |-> req.handler, caller |-> req.caller,
              recipeId |-> req.recipeId,
              ok |-> (thrown = NoError /\ res.sent /\ res.success),
              isSaved |-> res.isSaved, saveCount |-> res.saveCount,
              preSavedBy |->
                IF req.recipeId \in DOMAIN pre.recipes
                  THEN pre.recipes[req.recipeId].savedBy ELSE {},
              preSavedRecipes |->
                IF req.caller \in DOMAIN pre.users
                  THEN pre.users[req.caller].savedRecipes ELSE {}]
  /\ pc' = "idle"
  /\ req' = NoReq
  /\ loc' = NoLoc
  /\ err' = NoError
  /\ thrown' = NoError
  /\ result' = "none"
  /\ res' = NoRes
  /\ txUsers' = EmptyColl
  /\ txRecipes' = EmptyColl
  /\ txState' = "NO_TRANSACTION"
  /\ txOps' = 0
  /\ sessionState' = "none"
  /\ endCalls' = 0
  /\ commitCalls' = 0
  /\ abortCalls' = 0
  /\ writes' = 0
  /\ calls' = NoCalls
  /\ deleted' = deleted
  /\ pre' = [users |-> EmptyColl, recipes |-> EmptyColl, images |-> {}]
  /\ AllocReset
  /\ UNCHANGED dbVars

(***************************************************************************)
(* toggleSaveRecipe (controllers/recipe.controller.ts)                     *)
(***************************************************************************)
\* the committed collection after a write that was issued without the session
CommittedAfterWrite_NoSession(committed, id, d) == Put(committed, id, d)

\* the committed collection after a write issued with { session }: the write
\* stays in the transaction until it commits
CommittedAfterWrite(committed, id, d) == committed

\* a $pull that removes nothing
Pull_Keeps(set, x) == set

\* $pull: { savedBy: userId }
Pull(set, x) == set \ {x}

\* an add that leaves the set as it is
AddToSet_Noop(set, x) == set

\* $addToSet: { savedBy: userId }
AddToSet(set, x) == set \cup {x}

\* a write that is accepted whatever was committed since the snapshot
WriteConflict_Undetected(committed, snap, id) == FALSE

\* a write issued with { session } on a document that another transaction
\* has changed or removed since the snapshot of this one is rejected by the
\* database with a write conflict
WriteConflict(committed, snap, id) ==
  /\ id \in DOMAIN snap
  /\ IF id \in DOMAIN committed THEN committed[id] # snap[id] ELSE TRUE

ToggleRequest ==
  \E caller \in (DOMAIN users) \cup {NoCaller, GhostUser},
     rid \in RecipeIds \cup {NoRecipeId} :
    StartRun([NoReq EXCEPT !.handler = "toggleSaveRecipe",
                           !.caller = caller, !.recipeId = rid])

\* the self-save test, skipped
IsOwnRecipe_Never(recipe, userId) == FALSE

\* line 599: recipe.createdBy._id.toString() === userId.toString()
IsOwnRecipe(recipe, userId) == recipe.createdBy = userId

\* the test of the recipe id, skipped
RecipeIdMissing_Never(rid) == FALSE

\* line 572: if (!recipeId)
RecipeIdMissing(rid) == rid = NoRecipeId

\* lines 566-607: checks, reads of the user and the recipe, membership test
ToggleCheck ==
  /\ pc = "tg_check"
  /\ IF req.caller = NoCaller
       THEN BodyThrows("Unauthorized", 401)
            /\ UNCHANGED << loc, txOps, txState >>
       ELSE IF RecipeIdMissing(req.recipeId)
       THEN BodyThrows("RecipeIdMissing", 400)
            /\ UNCHANGED << loc, txOps, txState >>
       ELSE /\ OpsOnSession(2)
            /\ IF req.caller \notin DOMAIN txUsers
                 THEN BodyThrows("UserNotFound", 404) /\ loc' = loc
                 ELSE IF req.recipeId \notin DOMAIN txRecipes
                 THEN BodyThrows("RecipeNotFound", 404) /\ loc' = loc
                 ELSE IF IsOwnRecipe(txRecipes[req.recipeId], req.caller)
                 THEN BodyThrows("SelfSave", 400) /\ loc' = loc
                 ELSE /\ loc' = [loc EXCEPT !.isSaved =
                            req.caller \in txRecipes[req.recipeId].savedBy]
                      /\ pc' = "tg_recipe"
                      /\ UNCHANGED << err, res >>
  /\ UNCHANGED << dbVars, allocVars, histVars, req, thrown, result, txUsers,
                  txRecipes, sessionState, endCalls, commitCalls, abortCalls >>

\* lines 614-618 and 627-631: Recipe.findByIdAndUpdate on the session
ToggleUpdateRecipe ==
  /\ pc = "tg_recipe"
  /\ OpsOnSession(1)
  /\ \E ok \in BOOLEAN :
       IF ok /\ WriteConflict(recipes, pre.recipes, req.recipeId)
         THEN /\ BodyThrows("WriteConflict", res.status)
              /\ UNCHANGED << txRecipes, recipes, loc, writes >>
       ELSE IF ok
         THEN LET r == txRecipes[req.recipeId]
                  d == [r EXCEPT !.savedBy =
                          IF loc.isSaved THEN Pull(@, req.caller)
                                         ELSE AddToSet(@, req.caller)]
              IN  /\ txRecipes' = Put(txRecipes, req.recipeId, d)
                  /\ recipes' = CommittedAfterWrite(recipes, req.recipeId, d)
                  /\ loc' = [loc EXCEPT !.savedCount = Cardinality(d.savedBy)]
                  /\ writes' = writes + 1
                  /\ pc' = "tg_user"
                  /\ UNCHANGED << err, res >>
         ELSE /\ BodyThrows("DbError", res.status)
              /\ UNCHANGED << txRecipes, recipes, loc, writes >>
  /\ UNCHANGED << users, images, nextUser, nextRecipe, nextImage, allocVars,
                  pre, prev, calls, deleted, req, thrown, result, txUsers,
                  sessionState,
                  endCalls, commitCalls, abortCalls >>

\* the user-side update left out
UserSideUpdate_Skipped(u, isSaved, rid) == u

\* lines 620-624 and 633-637: the update of the user's savedRecipes
UserSideUpdate(u, isSaved, rid) ==
  [u EXCEPT !.savedRecipes = IF isSaved THEN Pull(@, rid)
                                        ELSE AddToSet(@, rid)]

\* lines 620-624, 633-637 and 640-648: User.findByIdAndUpdate on the
\* session, then the response
ToggleUpdateUser ==
  /\ pc = "tg_user"
  /\ OpsOnSession(1)
  /\ \E ok \in BOOLEAN :
       IF ok /\ WriteConflict(users, pre.users, req.caller)
         THEN /\ BodyThrows("WriteConflict", res.status)
              /\ UNCHANGED << txUsers, users, loc, writes >>
       ELSE IF ok
         THEN LET d == UserSideUpdate(txUsers[req.caller], loc.isSaved,
                                      req.recipeId)
              IN  /\ txUsers' = Put(txUsers, req.caller, d)
                  /\ users' = CommittedAfterWrite(users, req.caller, d)
                  /\ writes' = writes + 1
                  /\ res' = [res EXCEPT !.status = 200, !.sent = TRUE,
                                        !.success = TRUE,
                                        !.isSaved = ~loc.isSaved,
                                        !.saveCount = loc.savedCount]
                  /\ BodyReturns("undefined")
                  /\ err' = err
         ELSE /\ BodyThrows("DbError", res.status)
              /\ UNCHANGED << txUsers, users, loc, writes >>
  /\ UNCHANGED << recipes, images, nextUser, nextRecipe, nextImage, allocVars,
                  pre, prev, calls, deleted, req, thrown, result, txRecipes,
                  sessionState,
                  endCalls, commitCalls, abortCalls >>

(***************************************************************************)
(* signUp (controllers/auth.controller.ts) and the User schema             *)
(***************************************************************************)
WordChars == LowerChars \cup UpperChars \cup DigitChars \cup {"_"}
SepChars == {".", "-"}

\* /^[^\s@]+@[^\s@]+\.[^\s@]+$/
emailRegex(e) ==
  /\ \A i \in 1..Len(e) : ~IsWhite(e[i])
  /\ Cardinality({i \in 1..Len(e) : e[i] = "@"}) = 1
  /\ LET at == CHOOSE i \in 1..Len(e) : e[i] = "@"
     IN  /\ at > 1
         /\ \E j \in (at + 2)..(Len(e) - 1) : e[j] = "."

\* \w+([\.-]?\w+)*
WordGroups(s) ==
  /\ s # << >>
  /\ s[1] \in WordChars
  /\ s[Len(s)] \in WordChars
  /\ \A i \in 1..Len(s) : s[i] \in WordChars \cup SepChars
  /\ \A i \in 1..(Len(s) - 1) : ~(s[i] \in SepChars /\ s[i + 1] \in SepChars)

\* the match of the email path of the schema:
\* /^\w+([\.-]?\w+)*@\w+([\.-]?\w+)*(\.\w{2,3})+$/
emailSchemaMatch(e) ==
  /\ Cardinality({i \in 1..Len(e) : e[i] = "@"}) = 1
  /\ LET at == CHOOSE i \in 1..Len(e) : e[i] = "@"
         dom == SubSeq(e, at + 1, Len(e))
     IN  /\ WordGroups(SubSeq(e, 1, at - 1))
         /\ \E j \in 2..Len(dom) :
              /\ dom[j] = "."
              /\ Len(dom) - j \in {2, 3}
              /\ \A k \in (j + 1)..Len(dom) : dom[k] \in WordChars
              /\ WordGroups(SubSeq(dom, 1, j - 1))

\* the setters of the email path: trim, lowercase
emailSetter(e) == toLowerCase(trim(e))

\* required, minlength and maxlength of the name and username paths, the
\* match of the email path; the values are the ones the setters produced
userSchemaValid(name, uname, email) ==
  /\ Len(trim(name)) >= MinNameLen
  /\ Len(trim(name)) <= MaxNameLen
  /\ Len(trim(uname)) >= MinNameLen
  /\ Len(trim(uname)) <= MaxNameLen
  /\ emailSchemaMatch(emailSetter(email))

\* the handles c for which User.findOne({ username: c }).session(session)
\* finds a document
TakenUsernames == {txUsers[id].username : id \in DOMAIN txUsers}

\* User.findOne({ email }).session(session); the filter is cast by the schema
EmailExists(e) ==
  \E id \in DOMAIN txUsers : txUsers[id].email = emailSetter(e)

\* an insert that the unique indexes do not guard
DuplicateKey_NoIndex(coll, uname, email) == FALSE

\* the unique indexes on username and email reject the insert
DuplicateKey(coll, uname, email) ==
  \E id \in DOMAIN coll :
    coll[id].username = uname \/ coll[id].email = email

SignUpRequest(names, emails, pwLens) ==
  /\ nextUser <= MaxUsers
  /\ \E n \in names, e \in emails, p \in pwLens :
       StartRun([NoReq EXCEPT !.handler = "signUp", !.name = n,
                              !.email = e, !.pwLen = p])

\* lines 44-73: validation, the email lookup, the call of the allocator
SignUpValidate ==
  /\ pc = "su_validate"
  /\ IF req.email = << >> \/ req.pwLen = 0
       THEN BodyThrows("MissingCredentials", 400)
            /\ UNCHANGED << txOps, txState, allocVars >>
       ELSE IF ~emailRegex(req.email)
       THEN BodyThrows("InvalidEmail", 400)
            /\ UNCHANGED << txOps, txState, allocVars >>
       ELSE IF req.pwLen < MinPasswordLen
       THEN BodyThrows("WeakPassword", 400)
            /\ UNCHANGED << txOps, txState, allocVars >>
       ELSE /\ OpsOnSession(1)
            /\ IF EmailExists(req.email)
                 THEN BodyThrows("UserExists", 400) /\ UNCHANGED allocVars
                 ELSE /\ AllocCall(IF req.name # << >> THEN req.name
                                                       ELSE req.email)
                      /\ pc' = "su_alloc"
                      /\ UNCHANGED << err, res >>
  /\ UNCHANGED << dbVars, histVars, req, loc, thrown, result, txUsers,
                  txRecipes, sessionState, endCalls, commitCalls, abortCalls >>

\* generateUniqueUsername running inside signUp: the first existence check
SignUpAllocCheckBase ==
  /\ pc = "su_alloc"
  /\ AllocCheckBase(TakenUsernames)
  /\ OpsOnSession(1)
  /\ pc' = IF allocPc' = "returned" THEN "su_create" ELSE "su_alloc"
  /\ UNCHANGED << dbVars, histVars, req, loc, err, thrown, result, res,
                  txUsers, txRecipes, sessionState, endCalls, commitCalls,
                  abortCalls >>

\* generateUniqueUsername running inside signUp: one iteration of the loop
SignUpAllocAttempt ==
  /\ pc = "su_alloc"
  /\ \E seed \in 0..MaxSeedDb : AllocAttempt(seed, TakenUsernames)
  /\ IF allocPc' = "exhausted"
       THEN /\ BodyThrows("AllocationExhausted", res.status)
            /\ UNCHANGED << txOps, txState >>
       ELSE /\ OpsOnSession(1)
            /\ pc' = IF allocPc' = "returned" THEN "su_create" ELSE "su_alloc"
            /\ UNCHANGED << err, res >>
  /\ UNCHANGED << dbVars, histVars, req, loc, thrown, result, txUsers,
                  txRecipes, sessionState, endCalls, commitCalls, abortCalls >>

\* lines 75-96: User.create([...], { session })
SignUpCreate ==
  /\ pc = "su_create"
  /\ LET email == emailSetter(req.email)
         d == [username |-> allocResult, email |-> email,
               role |-> "creator", savedRecipes |-> {}]
     IN  IF ~userSchemaValid(req.name, allocResult, req.email)
           THEN /\ BodyThrows("ValidationError", res.status)
                /\ UNCHANGED << txUsers, users, txOps, txState, writes,
                                nextUser >>
           ELSE /\ OpsOnSession(1)
                /\ \E ok \in BOOLEAN :
                     IF ~ok
                       THEN /\ BodyThrows("DbError", res.status)
                            /\ UNCHANGED << txUsers, users, writes, nextUser >>
                       ELSE IF DuplicateKey(txUsers, allocResult, email)
                               \/ DuplicateKey(users, allocResult, email)
                       THEN /\ BodyThrows("DuplicateKey", res.status)
                            /\ UNCHANGED << txUsers, users, writes, nextUser >>
                       ELSE /\ txUsers' = Put(txUsers, nextUser, d)
                            /\ users' = CommittedAfterWrite(users, nextUser, d)
                            /\ nextUser' = nextUser + 1
                            /\ writes' = writes + 1
                            /\ pc' = "su_respond"
                            /\ UNCHANGED << err, res >>
  /\ UNCHANGED << recipes, images, nextRecipe, nextImage, allocVars,
                  pre, prev, calls, deleted, req, loc, thrown, result,
                  txRecipes,
                  sessionState, endCalls, commitCalls, abortCalls >>

\* lines 98-115: generateToken, then the 201 response
SignUpRespond ==
  /\ pc = "su_respond"
  /\ \E tokenOk \in BOOLEAN :
       IF tokenOk
         THEN /\ res' = [res EXCEPT !.status = 201, !.sent = TRUE,
                                    !.success = TRUE]
              /\ BodyReturns("undefined")
              /\ err' = err
         ELSE BodyThrows("TokenError", res.status) /\ loc' = loc
  /\ UNCHANGED << dbVars, allocVars, histVars, txVars, req, thrown, result >>

(***************************************************************************)
(* createRecipe (controllers/recipe.controller.ts)                         *)
(* name stands for the string fields name, desc, difficulty and cuisine,   *)
(* prepTime for the numeric fields prepTime and serving.  A valid array    *)
(* field is a positive number naming its content.                          *)
(***************************************************************************)
\* req.user of an authenticated request: the stored user, or none
Callers == (DOMAIN users) \cup {NoCaller}

\* a role test that no caller passes
IsAdmin_Never(caller) == FALSE

\* a role test that every caller passes
IsAdmin_Always(caller) == TRUE

\* (req.user as any).role === "admin"
IsAdmin(caller) == caller \in DOMAIN users /\ users[caller].role = "admin"

\* JSON.parse(text) throws
ParseThrows(field) == field \in {Absent, Malformed}

\* an array test that forgets the length
NotNonEmptyArray_LengthUnchecked(field) == field = NonArray

\* !Array.isArray(arr) || arr.length === 0
NotNonEmptyArray(field) == field \in {NonArray, EmptyArray}

CreateRequest ==
  /\ nextRecipe <= MaxRecipes
  /\ nextImage <= MaxImages
  /\ \E caller \in Callers, f \in BOOLEAN :
       StartRun([NoReq EXCEPT !.handler = "createRecipe", !.caller = caller,
                              !.hasFile = f])

\* lines 87-149: the checks that precede the image pipeline
CreateValidate(bodies) ==
  /\ pc = "cr_validate"
  /\ \E formData \in bodies :
       LET name == formData.name
           prepTime == formData.prepTime
           nutritionFacts == formData.nutritionFacts
           ingredients == formData.ingredients
           instructions == formData.instructions
           read == [loc EXCEPT !.body = formData]
       IN
       IF req.caller = NoCaller
         THEN BodyThrows("Unauthorized", 401) /\ loc' = loc
       ELSE IF name = Absent \/ prepTime = Absent \/ ingredients = Absent
               \/ instructions = Absent
         THEN BodyThrows("MissingFields", 400) /\ loc' = read
       ELSE IF ParseThrows(ingredients) \/ ParseThrows(instructions)
               \/ ParseThrows(nutritionFacts)
         THEN BodyThrows("SyntaxError", res.status) /\ loc' = read
       ELSE IF NotNonEmptyArray(nutritionFacts)
         THEN BodyThrows("NutritionFactsNotNonEmptyArray", 400) /\ loc' = read
       ELSE IF NotNonEmptyArray(ingredients)
         THEN BodyThrows("IngredientsNotNonEmptyArray", 400) /\ loc' = read
       ELSE IF NotNonEmptyArray(instructions)
         THEN BodyThrows("InstructionsNotNonEmptyArray", 400) /\ loc' = read
       ELSE IF ~req.hasFile
         THEN BodyThrows("ImageRequired", 400) /\ loc' = read
       ELSE /\ loc' = [read EXCEPT !.doc =
                         [createdBy |-> req.caller, savedBy |-> {},
                          image |-> NoImage, name |-> name,
                          prepTime |-> prepTime,
                          nutritionFacts |-> nutritionFacts,
                          ingredients |-> ingredients,
                          instructions |-> instructions]]
            /\ pc' = "cr_optimize"
            /\ UNCHANGED << err, res >>
  /\ UNCHANGED << dbVars, allocVars, histVars, txVars, req, thrown, result >>

\* an optimisation whose failure is ignored: the upload goes on with the
\* buffer as it came
CreateOptimize_Unchecked ==
  /\ pc = "cr_optimize"
  /\ \E ok \in BOOLEAN :
       calls' = [calls EXCEPT !.optimize = @ + 1,
                              !.optimized = IF ok THEN @ + 1 ELSE @]
  /\ pc' = "cr_upload"
  /\ UNCHANGED << dbVars, allocVars, pre, writes, prev, deleted, txVars, req,
                  loc, err,
                  res, thrown, result >>

\* lines 151-156 and 198-203: optimizeImage inside the try block
CreateOptimize ==
  /\ pc = "cr_optimize"
  /\ \E ok \in BOOLEAN :
       /\ calls' = [calls EXCEPT !.optimize = @ + 1,
                                 !.optimized = IF ok THEN @ + 1 ELSE @]
       /\ IF ok
            THEN pc' = "cr_upload" /\ UNCHANGED << err, res >>
            ELSE BodyThrows("FailedToUploadRecipeImage", 500)
  /\ UNCHANGED << dbVars, allocVars, pre, writes, prev, deleted, txVars, req,
                  loc,
                  thrown, result >>

\* lines 158-164 and 198-203: cloudinary.uploader.upload inside the try block
CreateUpload ==
  /\ pc = "cr_upload"
  /\ \E ok \in BOOLEAN :
       /\ calls' = [calls EXCEPT !.upload = @ + 1,
                                 !.uploaded = IF ok THEN @ + 1 ELSE @]
       /\ IF ok
            THEN /\ images' = images \cup {nextImage}
                 /\ nextImage' = nextImage + 1
                 /\ loc' = [loc EXCEPT !.image = nextImage]
                 /\ pc' = "cr_insert"
                 /\ UNCHANGED << err, res >>
            ELSE /\ BodyThrows("FailedToUploadRecipeImage", 500)
                 /\ UNCHANGED << images, nextImage, loc >>
  /\ UNCHANGED << users, recipes, nextUser, nextRecipe, allocVars, pre, writes,
                  prev, deleted, txVars, req, thrown, result >>

\* an insert that stores the document without the reference of the upload
CreateInsert_NoImageRef ==
  /\ pc = "cr_insert"
  /\ OpsOnSession(1)
  /\ \E ok \in BOOLEAN :
       IF ok
         THEN LET d == loc.doc
              IN  /\ txRecipes' = Put(txRecipes, nextRecipe, d)
                  /\ recipes' = CommittedAfterWrite(recipes, nextRecipe, d)
                  /\ nextRecipe' = nextRecipe + 1
                  /\ loc' = [loc EXCEPT !.newId = nextRecipe]
                  /\ writes' = writes + 1
                  /\ pc' = "cr_reread"
                  /\ UNCHANGED << err, res >>
         ELSE /\ BodyThrows("FailedToUploadRecipeImage", 500)
              /\ UNCHANGED << txRecipes, recipes, writes, nextRecipe, loc >>
  /\ UNCHANGED << users, images, nextUser, nextImage, allocVars,
                  pre, prev, calls, deleted, req, thrown, result, txUsers,
                  sessionState,
                  endCalls, commitCalls, abortCalls >>

\* an id generator that hands out the lowest id the session does not see
NewRecipeId_Reused ==
  CHOOSE i \in 1..nextRecipe :
    i \notin DOMAIN txRecipes /\ \A j \in 1..(i - 1) : j \in DOMAIN txRecipes

\* the _id that Recipe.create gives the new document: an ObjectId that was
\* never used before
NewRecipeId == nextRecipe

\* lines 166-186 and 198-203: Recipe.create([...], { session })
CreateInsert ==
  /\ pc = "cr_insert"
  /\ OpsOnSession(1)
  /\ \E ok \in BOOLEAN :
       IF ok
         THEN LET d == [loc.doc EXCEPT !.image = loc.image]
              IN  /\ txRecipes' = Put(txRecipes, NewRecipeId, d)
                  /\ recipes' = CommittedAfterWrite(recipes, NewRecipeId, d)
                  /\ nextRecipe' = nextRecipe + 1
                  /\ loc' = [loc EXCEPT !.newId = NewRecipeId]
                  /\ writes' = writes + 1
                  /\ pc' = "cr_reread"
                  /\ UNCHANGED << err, res >>
         ELSE \* the catch at 198-203 replaces the error of Recipe.create
              /\ loc' = [loc EXCEPT !.caught = "DbError"]
              /\ BodyThrows("FailedToUploadRecipeImage", 500)
              /\ UNCHANGED << txRecipes, recipes, writes, nextRecipe >>
  /\ UNCHANGED << users, images, nextUser, nextImage, allocVars,
                  pre, prev, calls, deleted, req, thrown, result, txUsers,
                  sessionState,
                  endCalls, commitCalls, abortCalls >>

\* lines 188-203: the populated re-read on the session, then the 201 response
CreateReread ==
  /\ pc = "cr_reread"
  /\ OpsOnSession(1)
  /\ \E ok \in BOOLEAN :
       IF ok
         THEN /\ res' = [res EXCEPT !.status = 201, !.sent = TRUE,
                                    !.success = TRUE,
                                    !.image = txRecipes[loc.newId].image]
              /\ BodyReturns("undefined")
              /\ err' = err
         ELSE \* the catch at 198-203 replaces the error of the re-read
              /\ loc' = [loc EXCEPT !.caught = "DbError"]
              /\ BodyThrows("FailedToUploadRecipeImage", 500)
  /\ UNCHANGED << dbVars, allocVars, histVars, req, thrown, result, txUsers,
                  txRecipes, sessionState, endCalls, commitCalls, abortCalls >>

(***************************************************************************)
(* updateRecipe                                                            *)
(***************************************************************************)
UpdateRequest ==
  \E caller \in Callers, rid \in RecipeIds, f \in BOOLEAN :
    /\ f => nextImage <= MaxImages
    /\ StartRun([NoReq EXCEPT !.handler = "updateRecipe", !.caller = caller,
                              !.recipeId = rid, !.hasFile = f])

\* an array test that lets the empty array through
ArrayFieldRejected_EmptyOk(field) ==
  field # Absent /\ (field = Malformed \/ field = NonArray)

\* lines 367-381 (and the two blocks after it): an array field that is
\* present must parse to a non-empty array
ArrayFieldRejected(field) ==
  field # Absent /\ (field = Malformed \/ NotNonEmptyArray(field))

\* an assignment that takes the request's value also when it is absent
Merged_Overwrites(prior, supplied) == supplied

\* lines 359-364 (name || recipe.name) and the if (field) guards at 367, 386
\* and 405: a field of the document takes the supplied value, or keeps its
\* prior value when none is supplied
Merged(prior, supplied) == IF supplied # Absent THEN supplied ELSE prior

\* lines 322-421: checks, the read of the recipe, the changes of the
\* in-memory document
UpdateCheck(bodies) ==
  /\ pc = "up_check"
  /\ \E body \in bodies :
       LET name == body.name
           prepTime == body.prepTime
           nutritionFacts == body.nutritionFacts
           ingredients == body.ingredients
           instructions == body.instructions
           read == [loc EXCEPT !.body = body]
       IN
       IF req.caller = NoCaller
         THEN BodyThrows("Unauthorized", 401)
              /\ UNCHANGED << loc, txOps, txState >>
         ELSE /\ OpsOnSession(1)
              /\ IF req.recipeId \notin DOMAIN txRecipes
                   THEN BodyThrows("RecipeNotFound", 404) /\ loc' = loc
                 ELSE IF txRecipes[req.recipeId].createdBy # req.caller
                         /\ ~IsAdmin(req.caller)
                   THEN BodyThrows("NotAuthorized", 401) /\ loc' = loc
                 ELSE IF ArrayFieldRejected(nutritionFacts)
                   THEN BodyThrows("InvalidNutritionFactsFormat", 400)
                        /\ loc' = read
                 ELSE IF ArrayFieldRejected(ingredients)
                   THEN BodyThrows("InvalidIngredientsFormat", 400)
                        /\ loc' = read
                 ELSE IF ArrayFieldRejected(instructions)
                   THEN BodyThrows("InvalidInstructionsFormat", 400)
                        /\ loc' = read
                 ELSE LET r == txRecipes[req.recipeId]
                      IN  /\ loc' = [read EXCEPT
                               !.doc = [r EXCEPT
                                 !.name = Merged(@, name),
                                 !.prepTime = Merged(@, prepTime),
                                 !.nutritionFacts = Merged(@, nutritionFacts),
                                 !.ingredients = Merged(@, ingredients),
                                 !.instructions = Merged(@, instructions)],
                               !.oldImage = r.image]
                          /\ pc' = IF req.hasFile THEN "up_optimize"
                                                  ELSE "up_save"
                          /\ UNCHANGED << err, res >>
  /\ UNCHANGED << dbVars, allocVars, histVars, req, thrown, result, txUsers,
                  txRecipes, sessionState, endCalls, commitCalls, abortCalls >>

\* the old image deleted first, before the new one is optimised and uploaded
UpdateOptimize_DestroysFirst ==
  /\ pc = "up_optimize"
  /\ \E ok \in BOOLEAN :
       /\ calls' = [calls EXCEPT !.optimize = @ + 1,
                                 !.optimized = IF ok THEN @ + 1 ELSE @,
                                 !.destroy = @ + 1, !.destroyed = @ + 1]
       /\ IF ok
            THEN pc' = "up_upload" /\ UNCHANGED << err, res >>
            ELSE BodyThrows("FailedToUploadNewRecipeImage", 500)
  /\ images' = images \ {loc.oldImage}
  /\ UNCHANGED << users, recipes, nextUser, nextRecipe, nextImage, allocVars,
                  pre, writes, prev, deleted, txVars, req, loc, thrown, result
                  >>

\* lines 424-427 and 454-458: optimizeImage inside the try block
UpdateOptimize ==
  /\ pc = "up_optimize"
  /\ \E ok \in BOOLEAN :
       /\ calls' = [calls EXCEPT !.optimize = @ + 1,
                                 !.optimized = IF ok THEN @ + 1 ELSE @]
       /\ IF ok
            THEN pc' = "up_upload" /\ UNCHANGED << err, res >>
            ELSE BodyThrows("FailedToUploadNewRecipeImage", 500)
  /\ UNCHANGED << dbVars, allocVars, pre, writes, prev, deleted, txVars, req,
                  loc,
                  thrown, result >>

\* lines 428-437 and 454-458: the upload of the new image
UpdateUpload ==
  /\ pc = "up_upload"
  /\ \E ok \in BOOLEAN :
       /\ calls' = [calls EXCEPT !.upload = @ + 1,
                                 !.uploaded = IF ok THEN @ + 1 ELSE @]
       /\ IF ok
            THEN /\ images' = images \cup {nextImage}
                 /\ nextImage' = nextImage + 1
                 /\ loc' = [loc EXCEPT !.image = nextImage]
                 /\ pc' = "up_destroy"
                 /\ UNCHANGED << err, res >>
            ELSE /\ BodyThrows("FailedToUploadNewRecipeImage", 500)
                 /\ UNCHANGED << images, nextImage, loc >>
  /\ UNCHANGED << users, recipes, nextUser, nextRecipe, allocVars, pre, writes,
                  prev, deleted, txVars, req, thrown, result >>

\* a delete of the old image without its own try/catch: its failure reaches
\* the catch block of the upload
UpdateDestroyOld_Unguarded ==
  /\ pc = "up_destroy"
  /\ \E ok \in BOOLEAN :
       LET attempted == loc.oldImage # NoImage
       IN  /\ calls' = [calls EXCEPT
                          !.destroy = IF attempted THEN @ + 1 ELSE @,
                          !.destroyed = IF attempted /\ ok THEN @ + 1 ELSE @]
           /\ images' = IF attempted /\ ok
                          THEN images \ {loc.oldImage} ELSE images
           /\ IF attempted /\ ~ok
                THEN BodyThrows("FailedToUploadNewRecipeImage", 500)
                     /\ loc' = loc
                ELSE /\ loc' = [loc EXCEPT !.doc = [@ EXCEPT !.image = loc.image]]
                     /\ pc' = "up_save"
                     /\ UNCHANGED << err, res >>
  /\ UNCHANGED << users, recipes, nextUser, nextRecipe, nextImage, allocVars,
                  pre, writes, prev, deleted, txVars, req, thrown, result >>

\* lines 439-453: best-effort delete of the old image, then the new reference
UpdateDestroyOld ==
  /\ pc = "up_destroy"
  /\ \E ok \in BOOLEAN :
       LET attempted == loc.oldImage # NoImage
       IN  /\ calls' = [calls EXCEPT
                          !.destroy = IF attempted THEN @ + 1 ELSE @,
                          !.destroyed = IF attempted /\ ok THEN @ + 1 ELSE @]
           /\ images' = IF attempted /\ ok
                          THEN images \ {loc.oldImage} ELSE images
  /\ loc' = [loc EXCEPT !.doc = [@ EXCEPT !.image = loc.image]]
  /\ pc' = "up_save"
  /\ UNCHANGED << users, recipes, nextUser, nextRecipe, nextImage, allocVars,
                  pre, writes, prev, deleted, txVars, req, err, thrown, result,
                  res >>

\* lines 461-462: recipe.save({ session })
UpdateSave ==
  /\ pc = "up_save"
  /\ OpsOnSession(1)
  /\ \E ok \in BOOLEAN :
       IF ok
         THEN /\ txRecipes' = Put(txRecipes, req.recipeId, loc.doc)
              /\ recipes' = CommittedAfterWrite(recipes, req.recipeId, loc.doc)
              /\ writes' = writes + 1
              /\ pc' = "up_populate"
              /\ UNCHANGED << err, res >>
         ELSE /\ BodyThrows("SaveError", res.status)
              /\ UNCHANGED << txRecipes, recipes, writes >>
  /\ UNCHANGED << users, images, nextUser, nextRecipe, nextImage, allocVars,
                  pre, prev, calls, deleted, req, loc, thrown, result, txUsers,
                  sessionState,
                  endCalls, commitCalls, abortCalls >>

\* lines 464-474: Recipe.populate (not on the session), then the 200 response
UpdatePopulate ==
  /\ pc = "up_populate"
  /\ \E ok \in BOOLEAN :
       IF ok
         THEN /\ res' = [res EXCEPT !.status = 200, !.sent = TRUE,
                                    !.success = TRUE,
                                    !.image = loc.doc.image]
              /\ BodyReturns("undefined")
              /\ err' = err
         ELSE BodyThrows("PopulateError", res.status) /\ loc' = loc
  /\ OpsOffSession(1)
  /\ UNCHANGED << dbVars, allocVars, pre, writes, prev, deleted, txVars, req,
                  thrown, result >>

(***************************************************************************)
(* deleteRecipe                                                            *)
(***************************************************************************)
DeleteRequest ==
  \E caller \in Callers, rid \in RecipeIds :
    StartRun([NoReq EXCEPT !.handler = "deleteRecipe", !.caller = caller,
                           !.recipeId = rid])

\* lines 492-524: checks, the read of the recipe, the authorization test
DeleteCheck ==
  /\ pc = "de_check"
  /\ IF req.caller = NoCaller
       THEN BodyThrows("Unauthorized", 401)
            /\ UNCHANGED << loc, txOps, txState >>
       ELSE /\ OpsOnSession(1)
            /\ IF req.recipeId \notin DOMAIN txRecipes
                 THEN BodyThrows("RecipeNotFound", 404) /\ loc' = loc
               ELSE IF txRecipes[req.recipeId].createdBy # req.caller
                       /\ ~IsAdmin(req.caller)
                 THEN \* the refusal is a response, the body returns normally
                      /\ res' = [res EXCEPT !.status = 403, !.sent = TRUE,
                                            !.success = FALSE]
                      /\ BodyReturns("res")
                      /\ err' = err
               ELSE /\ loc' = [loc EXCEPT
                                 !.oldImage = txRecipes[req.recipeId].image]
                    /\ pc' = "de_delete"
                    /\ UNCHANGED << err, res >>
  /\ UNCHANGED << dbVars, allocVars, histVars, req, thrown, result, txUsers,
                  txRecipes, sessionState, endCalls, commitCalls, abortCalls >>

\* a delete that is accepted whatever was committed since the snapshot
DeleteConflict_Undetected(rid) == FALSE

\* lines 526-527: deleteOne with { session } on a recipe that another
\* transaction has changed or removed since the snapshot is rejected
DeleteConflict(rid) == WriteConflict(recipes, pre.recipes, rid)

\* the users whose savedRecipes hold rid: the filter { savedRecipes: id }
MatchedUsers(coll, rid) == {u \in DOMAIN coll : rid \in coll[u].savedRecipes}

\* lines 529-534: updateMany with { session } is rejected when one of the
\* users it matches was changed by another transaction since the snapshot
PullConflict(rid) ==
  \E u \in MatchedUsers(txUsers, rid) : WriteConflict(users, pre.users, u)

\* lines 526-527: recipe.deleteOne({ session })
DeleteRecipeDoc ==
  /\ pc = "de_delete"
  /\ OpsOnSession(1)
  /\ \E ok \in BOOLEAN :
       IF ok /\ DeleteConflict(req.recipeId)
         THEN /\ BodyThrows("WriteConflict", res.status)
              /\ UNCHANGED << txRecipes, writes >>
       ELSE IF ok
         THEN /\ txRecipes' = Remove(txRecipes, req.recipeId)
              /\ writes' = writes + 1
              /\ pc' = "de_pull"
              /\ UNCHANGED << err, res >>
         ELSE /\ BodyThrows("DbError", res.status)
              /\ UNCHANGED << txRecipes, writes >>
  /\ UNCHANGED << dbVars, allocVars, pre, prev, calls, deleted, req, loc,
                  thrown, result,
                  txUsers, sessionState, endCalls, commitCalls, abortCalls >>

\* a pull that only reaches the saved set of the caller
DeletePullSaved_CallerOnly ==
  /\ pc = "de_pull"
  /\ OpsOnSession(1)
  /\ \E ok \in BOOLEAN :
       IF ok
         THEN /\ txUsers' = [u \in DOMAIN txUsers |->
                   IF u = req.caller
                     THEN [txUsers[u] EXCEPT
                             !.savedRecipes = Pull(@, req.recipeId)]
                     ELSE txUsers[u]]
              /\ writes' = writes + 1
              /\ pc' = "de_image"
              /\ UNCHANGED << err, res >>
         ELSE /\ BodyThrows("DbError", res.status)
              /\ UNCHANGED << txUsers, writes >>
  /\ UNCHANGED << dbVars, allocVars, pre, prev, calls, deleted, req, loc,
                  thrown, result,
                  txRecipes, sessionState, endCalls, commitCalls, abortCalls >>

\* lines 529-534: User.updateMany({ savedRecipes: id }, { $pull }, { session })
DeletePullSaved ==
  /\ pc = "de_pull"
  /\ OpsOnSession(1)
  /\ \E ok \in BOOLEAN :
       IF ok /\ PullConflict(req.recipeId)
         THEN /\ BodyThrows("WriteConflict", res.status)
              /\ UNCHANGED << txUsers, writes >>
       ELSE IF ok
         THEN /\ txUsers' = [u \in DOMAIN txUsers |->
                   [txUsers[u] EXCEPT !.savedRecipes = Pull(@, req.recipeId)]]
              /\ writes' = writes + 1
              /\ pc' = "de_image"
              /\ UNCHANGED << err, res >>
         ELSE /\ BodyThrows("DbError", res.status)
              /\ UNCHANGED << txUsers, writes >>
  /\ UNCHANGED << dbVars, allocVars, pre, prev, calls, deleted, req, loc,
                  thrown, result,
                  txRecipes, sessionState, endCalls, commitCalls, abortCalls >>

\* lines 536-549: best-effort delete of the stored image, then the 200
\* response
DeleteImage ==
  /\ pc = "de_image"
  /\ \E ok \in BOOLEAN :
       LET attempted == loc.oldImage # NoImage
       IN  /\ calls' = [calls EXCEPT
                          !.destroy = IF attempted THEN @ + 1 ELSE @,
                          !.destroyed = IF attempted /\ ok THEN @ + 1 ELSE @]
           /\ images' = IF attempted /\ ok
                          THEN images \ {loc.oldImage} ELSE images
  /\ res' = [res EXCEPT !.status = 200, !.sent = TRUE, !.success = TRUE]
  /\ BodyReturns("res")
  /\ UNCHANGED << users, recipes, nextUser, nextRecipe, nextImage, allocVars,
                  pre, writes, prev, deleted, txVars, req, err, thrown, result
                  >>

(***************************************************************************)
(* getRecipeById (asyncHandler, no transaction)                            *)
(***************************************************************************)
\* a GET /:id request reaches the handler
GetRequest ==
  /\ pc = "idle"
  /\ \E rid \in RecipeIds :
       req' = [NoReq EXCEPT !.handler = "getRecipeById", !.recipeId = rid]
  /\ pre' = [users |-> users, recipes |-> recipes, images |-> images]
  /\ pc' = "gt_find"
  /\ UNCHANGED << dbVars, allocVars, txVars, loc, err, thrown, result, res,
                  writes, prev, calls, deleted >>

\* lines 291-306: Recipe.findById on the committed state, then the 404 error
\* passed on by asyncHandler or the 201 response
GetRecipeById ==
  /\ pc = "gt_find"
  /\ IF req.recipeId \notin DOMAIN recipes
       THEN /\ err' = "RecipeNotFound"
            /\ thrown' = "RecipeNotFound"
            /\ res' = [res EXCEPT !.status = 404]
       ELSE /\ res' = [res EXCEPT !.status = 201, !.sent = TRUE,
                                  !.success = TRUE,
                                  !.image = recipes[req.recipeId].image]
            /\ UNCHANGED << err, thrown >>
  /\ pc' = "replied"
  /\ UNCHANGED << dbVars, allocVars, txVars, histVars, req, loc, result >>

(***************************************************************************)
(* Specifications                                                          *)
(***************************************************************************)
InitDb ==
  /\ users = SeedUsers
  /\ recipes = EmptyColl
  /\ images = {}
  /\ nextUser = Len(SeedUsers) + 1
  /\ nextRecipe = 1
  /\ nextImage = 1

Init ==
  /\ InitDb
  /\ RunIdle
  /\ AllocIdle
  /\ prev = NoPrev
  /\ deleted = {}

\* request data of the sign-ups
NameBob == << "B","o","b" >>
NameShort == << "a"," ","b" >>
NameNew == << "C","-","a"," ","l" >>
EmailNew == << "c","@","x",".","i","o" >>
EmailBobUpper == << "B","@","x",".","i","o" >>
EmailLongTld == << "d","@","x",".","i","n","f","o" >>
EmailBad == << "b","a","d" >>
SignUpNames == {NoString, NameBob, NameShort, NameNew}
EmailNewUpper == << "C","@","x",".","i","o" >>
EmailOther == << "e","@","x",".","i","o" >>
SignUpEmails ==
  {EmailNew, EmailNewUpper, BobEmail, EmailOther, EmailLongTld, EmailBad}
SignUpPwLens == {0, MinPasswordLen - 1, MinPasswordLen}
FewNames == {NameBob, NameNew}
FewEmails == {EmailNew, EmailBobUpper}
FewPwLens == {MinPasswordLen}

\* request data of the recipe handlers: req.body of the multipart form
Body(name, prepTime, nutritionFacts, ingredients, instructions) ==
  [name |-> name, prepTime |-> prepTime, nutritionFacts |-> nutritionFacts,
   ingredients |-> ingredients, instructions |-> instructions]
ArrayInputs(valid) == {Absent, Malformed, NonArray, EmptyArray, valid}
FewCreateBodies ==
  {Body(1, 1, 1, 1, 1), Body(Absent, 1, 1, 1, 1), Body(1, 1, 1, EmptyArray, 1),
   Body(1, 1, Absent, 1, 1)}
FewUpdateBodies ==
  {Body(1, Absent, Absent, 1, Absent), Body(1, Absent, Absent, EmptyArray, 1)}

Next ==
  \/ CreateRequest
  \/ CreateValidate(FewCreateBodies)
  \/ CreateOptimize
  \/ CreateUpload
  \/ CreateInsert
  \/ CreateReread
  \/ UpdateRequest
  \/ UpdateCheck(FewUpdateBodies)
  \/ UpdateOptimize
  \/ UpdateUpload
  \/ UpdateDestroyOld
  \/ UpdateSave
  \/ UpdatePopulate
  \/ DeleteRequest
  \/ DeleteCheck
  \/ DeleteRecipeDoc
  \/ DeletePullSaved
  \/ DeleteImage
  \/ GetRequest
  \/ GetRecipeById
  \/ ToggleRequest
  \/ SignUpRequest(FewNames, FewEmails, FewPwLens)
  \/ SignUpValidate
  \/ SignUpAllocCheckBase
  \/ SignUpAllocAttempt
  \/ SignUpCreate
  \/ SignUpRespond
  \/ StartTransaction
  \/ ToggleCheck
  \/ ToggleUpdateRecipe
  \/ ToggleUpdateUser
  \/ CommitTransaction
  \/ ReturnResult
  \/ CatchAbortRethrow
  \/ EndSession
  \/ Finish(FALSE)

Spec == Init /\ [][Next]_vars

(***************************************************************************)
(* Sign-ups alone, from an empty database; another sign-up may run to its  *)
(* commit while the observed one is between its snapshot and its insert    *)
(***************************************************************************)
\* a concurrent signUp run, from its own snapshot of the committed state to
\* its commit
OtherSignUpCommits ==
  /\ pc \in {"su_validate", "su_alloc", "su_create"}
  /\ nextUser < MaxUsers
  /\ \E n \in SignUpNames \ {NoString}, e \in SignUpEmails,
        seed \in 0..MaxSeedDb :
       LET base == generateUsername(n)
           taken == \E id \in DOMAIN users : users[id].username = base
           cand == IF taken THEN base \o << "." >> \o generateSuffix(seed)
                            ELSE base
           d == [username |-> cand, email |-> emailSetter(e),
                 role |-> "creator", savedRecipes |-> {}]
       IN  /\ emailRegex(e)
           /\ userSchemaValid(n, cand, e)
           /\ ~DuplicateKey(users, cand, emailSetter(e))
           /\ users' = Put(users, nextUser, d)
           /\ nextUser' = nextUser + 1
  /\ UNCHANGED << recipes, images, nextRecipe, nextImage, txVars, runVars,
                  histVars, allocVars >>

InitSignUp ==
  /\ users = EmptyColl
  /\ recipes = EmptyColl
  /\ images = {}
  /\ nextUser = 1
  /\ nextRecipe = 1
  /\ nextImage = 1
  /\ RunIdle
  /\ AllocIdle
  /\ prev = NoPrev
  /\ deleted = {}

NextSignUp ==
  \/ SignUpRequest(SignUpNames, SignUpEmails, SignUpPwLens)
  \/ StartTransaction
  \/ SignUpValidate
  \/ SignUpAllocCheckBase
  \/ SignUpAllocAttempt
  \/ SignUpCreate
  \/ SignUpRespond
  \/ OtherSignUpCommits
  \/ CommitTransaction
  \/ ReturnResult
  \/ CatchAbortRethrow
  \/ EndSession
  \/ Finish(FALSE)

SpecSignUp == InitSignUp /\ [][NextSignUp]_vars

(***************************************************************************)
(* Toggles alone, on a database that holds users and recipes               *)
(***************************************************************************)
CalHandle == << "c","a","l" >>
ToggleUsers ==
  SeedUsers \o << [username |-> CalHandle, email |-> EmailNew,
                   role |-> "creator", savedRecipes |-> {}] >>

InitToggle ==
  /\ users = ToggleUsers
  /\ \E creators \in [RecipeIds -> DOMAIN ToggleUsers] :
       recipes = [r \in RecipeIds |->
                    [createdBy |-> creators[r], savedBy |-> {}, image |-> r,
                     name |-> 1, prepTime |-> 1, nutritionFacts |-> 1,
                     ingredients |-> 1, instructions |-> 1]]
  /\ images = RecipeIds
  /\ nextUser = Len(ToggleUsers) + 1
  /\ nextRecipe = MaxRecipes + 1
  /\ nextImage = MaxRecipes + 1
  /\ RunIdle
  /\ AllocIdle
  /\ prev = NoPrev
  /\ deleted = {}

NextToggle ==
  \/ ToggleRequest
  \/ StartTransaction
  \/ ToggleCheck
  \/ ToggleUpdateRecipe
  \/ ToggleUpdateUser
  \/ CommitTransaction
  \/ ReturnResult
  \/ CatchAbortRethrow
  \/ EndSession
  \/ Finish(TRUE)

SpecToggle == InitToggle /\ [][NextToggle]_vars

(***************************************************************************)
(* toggleSaveRecipe next to a concurrent toggleSaveRecipe run              *)
(***************************************************************************)
\* a concurrent toggleSaveRecipe run of user u on recipe r, from its reads to
\* its commit, while the observed run is between its reads and its commit;
\* it cannot commit a document the observed run has already written (its own
\* write would be the one rejected)
OtherToggleCommits ==
  /\ pc \in {"tg_recipe", "tg_user", "commit"}
  /\ \E u \in DOMAIN users, r \in DOMAIN recipes :
       /\ ~IsOwnRecipe(recipes[r], u)
       /\ r = req.recipeId => pc = "tg_recipe"
       /\ u = req.caller => pc \in {"tg_recipe", "tg_user"}
       /\ LET isSaved == u \in recipes[r].savedBy
              d == [recipes[r] EXCEPT !.savedBy =
                      IF isSaved THEN Pull(@, u) ELSE AddToSet(@, u)]
          IN  /\ recipes' = Put(recipes, r, d)
              /\ users' = Put(users, u, UserSideUpdate(users[u], isSaved, r))
  /\ UNCHANGED << images, nextUser, nextRecipe, nextImage, txVars, runVars,
                  histVars, allocVars >>

NextToggleConcurrent ==
  \/ ToggleRequest
  \/ StartTransaction
  \/ ToggleCheck
  \/ ToggleUpdateRecipe
  \/ ToggleUpdateUser
  \/ CommitTransaction
  \/ ReturnResult
  \/ CatchAbortRethrow
  \/ EndSession
  \/ Finish(FALSE)
  \/ OtherToggleCommits

SpecToggleConcurrent == InitToggle /\ [][NextToggleConcurrent]_vars

(***************************************************************************)
(* The recipe handlers alone, with every shape of the form fields, on a    *)
(* database that holds a recipe with an image, saved by one user           *)
(***************************************************************************)
CreateBodies ==
  {Body(1, 1, a, b, c) : a \in ArrayInputs(1), b \in ArrayInputs(1),
                         c \in ArrayInputs(1)}
    \cup {Body(Absent, 1, 1, 1, 1), Body(1, Absent, 1, 1, 1)}
UpdateBodies ==
  {Body(n, Absent, a, b, c) : n \in {Absent, 2}, a \in ArrayInputs(1),
                              b \in ArrayInputs(1), c \in ArrayInputs(1)}

RecipeUsers == [ToggleUsers EXCEPT ![3].savedRecipes = {1}]

InitRecipes ==
  /\ users = RecipeUsers
  /\ \E creator \in {1, 2} :
       recipes = [r \in {1} |->
                    [createdBy |-> creator, savedBy |-> {3}, image |-> 1,
                     name |-> 1, prepTime |-> 1, nutritionFacts |-> 1,
                     ingredients |-> 1, instructions |-> 1]]
  /\ images = {1}
  /\ nextUser = Len(RecipeUsers) + 1
  /\ nextRecipe = 2
  /\ nextImage = 2
  /\ RunIdle
  /\ AllocIdle
  /\ prev = NoPrev
  /\ deleted = {}

NextRecipes ==
  \/ CreateRequest
  \/ CreateValidate(CreateBodies)
  \/ CreateOptimize
  \/ CreateUpload
  \/ CreateInsert
  \/ CreateReread
  \/ UpdateRequest
  \/ UpdateCheck(UpdateBodies)
  \/ UpdateOptimize
  \/ UpdateUpload
  \/ UpdateDestroyOld
  \/ UpdateSave
  \/ UpdatePopulate
  \/ DeleteRequest
  \/ DeleteCheck
  \/ DeleteRecipeDoc
  \/ DeletePullSaved
  \/ DeleteImage
  \/ StartTransaction
  \/ CommitTransaction
  \/ ReturnResult
  \/ CatchAbortRethrow
  \/ EndSession
  \/ Finish(FALSE)

SpecRecipes == InitRecipes /\ [][NextRecipes]_vars

(***************************************************************************)
(* The allocator on its own: any display name, any answers of the          *)
(* existence check                                                         *)
(***************************************************************************)
InputChars == {"B", "o", "7", " ", "-", "."}
SeqsUpTo(S, n) == UNION {[1..k -> S] : k \in 0..n}
Pad == [i \in 1..PadLen |-> "a"]
BaseInputs ==
  LET cores == SeqsUpTo(InputChars, MaxCoreLen)
  IN  cores \cup {Pad \o c : c \in cores} \cup {c \o Pad : c \in cores}

\* the bases of the runs whose termination is checked
FewBaseInputs == SeqsUpTo(InputChars, MaxFairCoreLen)

AllocStart(bases) ==
  /\ InitDb
  /\ RunIdle
  /\ prev = NoPrev
  /\ deleted = {}
  /\ allocPc = "first"
  /\ allocBase \in bases
  /\ username = NoString
  /\ newUsername = NoString
  /\ attempts = 0
  /\ checks = 0
  /\ allocResult = NoString
  /\ lastCand = NoString
  /\ lastAns = FALSE
  /\ takenRun = 0

InitAlloc == AllocStart(BaseInputs)

InitAllocFair == AllocStart(FewBaseInputs)

\* a lookup that finds a document for every handle, or for none
OracleAnswers(ans) == IF ans THEN Seq(STRING) ELSE {}

OracleCheckBase ==
  /\ \E ans \in BOOLEAN : AllocCheckBase(OracleAnswers(ans))
  /\ UNCHANGED << dbVars, txVars, runVars, histVars >>

OracleAttempt ==
  /\ \E seed \in 0..MaxSeedAlloc, ans \in BOOLEAN :
       AllocAttempt(seed, OracleAnswers(ans))
  /\ UNCHANGED << dbVars, txVars, runVars, histVars >>

NextAlloc ==
  \/ OracleCheckBase
  \/ OracleAttempt

SpecAlloc == InitAlloc /\ [][NextAlloc]_vars

\* the awaited lookups return, so the allocator keeps running
SpecAllocFair == InitAllocFair /\ [][NextAlloc]_vars /\ WF_vars(NextAlloc)

(***************************************************************************)
(* Properties of the allocator                                             *)
(***************************************************************************)
RECURSIVE KeepLowerAlnum(_)
KeepLowerAlnum(s) ==
  IF s = << >> THEN << >>
  ELSE LET c == ToLowerChar(Head(s))
       IN  (IF c \in LowerChars \cup DigitChars THEN << c >> ELSE << >>)
             \o KeepLowerAlnum(Tail(s))

\* the sanitized form as the specification words it
SanitizedForm(b) ==
  LET kept == KeepLowerAlnum(b)
      cut == [i \in 1..(IF Len(kept) < 20 THEN Len(kept) ELSE 20) |-> kept[i]]
  IN  IF cut = << >> THEN << "u","s","e","r" >> ELSE cut

\* C6: when the first existence check reports the sanitized base free,
\* generateUniqueUsername returns, after that single check, exactly the
\* sanitized form of the input (lowercased, everything outside [a-z0-9]
\* removed, cut to 20 characters), or "user" when nothing is left.
C6_FreeBaseReturnsSanitized ==
  (checks = 1 /\ ~lastAns) =>
    /\ allocPc = "returned"
    /\ allocResult = SanitizedForm(allocBase)

\* a long mixed-case input came back cut to 20 characters after one check
C6_Witness ==
  /\ allocPc = "returned"
  /\ checks = 1
  /\ Len(allocBase) > 20
  /\ Len(allocResult) = 20
  /\ \E i \in 1..Len(allocBase) : allocBase[i] \in UpperChars

SuffixSymbols ==
  {"b","c","d","f","g","h","j","k","l","m","n","p","q","r","s","t","v","w",
   "x","y","z","2","3","4","5","6","7","8","9"}

\* C7: when the sanitized base is taken and the k-th suffixed candidate
\* (1 <= k <= 10) is the first free one, the result is the sanitized base,
\* a dot and 6 symbols of bcdfghjklmnpqrstvwxyz23456789, and it is the
\* candidate the existence check just reported free.
C7_SuffixedResult ==
  (allocPc = "returned" /\ checks >= 2) =>
    LET n == Len(SanitizedForm(allocBase))
    IN  /\ checks - 1 \in 1..10
        /\ Len(allocResult) = n + 1 + 6
        /\ SubSeq(allocResult, 1, n) = SanitizedForm(allocBase)
        /\ allocResult[n + 1] = "."
        /\ \A i \in (n + 2)..(n + 7) : allocResult[i] \in SuffixSymbols
        /\ lastCand = allocResult
        /\ ~lastAns

\* the tenth suffixed candidate was the first free one
C7_Witness ==
  /\ allocPc = "returned"
  /\ checks = 11
  /\ attempts = 10
  /\ Len(allocResult) = Len(username) + 7

\* C8: no run makes more than 11 existence checks; a run whose 11 checks all
\* answered "taken" ends with the exhaustion error; every run ends.
C8_BoundedRetry ==
  /\ [](checks <= 11)
  /\ [](takenRun = 11 => allocPc \in {"loop", "exhausted"})
  /\ (takenRun = 11) ~> (allocPc = "exhausted")
  /\ <>(allocPc \in {"returned", "exhausted"})

\* the base and ten suffixed candidates were all taken: the run gave up
C8_Witness ==
  /\ allocPc = "exhausted"
  /\ takenRun = 11
  /\ checks = 11

(***************************************************************************)
(* Properties of the unit-of-work and of the handlers                      *)
(***************************************************************************)
\* the body of the running handler raised (the failure is not the commit's)
BodyRaised == err \notin {NoError, "CommitError"}

\* C1: once the body has raised after issuing writes on the session, none of
\* them is visible: the committed users and recipes are those from before
\* the run, also after the abort and the end of the session.
C1_AbortedWritesInvisible ==
  (pc \in {"catch", "finally", "done"} /\ BodyRaised /\ writes > 0) =>
    (users = pre.users /\ recipes = pre.recipes)

\* a toggle whose second update failed after the first had changed the recipe
C1_Witness ==
  /\ pc = "done"
  /\ req.handler = "toggleSaveRecipe"
  /\ err = "DbError"
  /\ writes = 1
  /\ txRecipes # recipes
  /\ recipes = pre.recipes

\* C2: in the committed state, for every stored user u and recipe r,
\* u is in r.savedBy exactly when r is in u.savedRecipes.
C2_BookmarkTwoSided ==
  \A u \in DOMAIN users, r \in DOMAIN recipes :
    (u \in recipes[r].savedBy) <=> (r \in users[u].savedRecipes)

\* a committed toggle put the caller on both sides
C2_Witness ==
  /\ pc = "done"
  /\ req.handler = "toggleSaveRecipe"
  /\ txState = "TRANSACTION_COMMITTED"
  /\ req.caller \in recipes[req.recipeId].savedBy
  /\ req.recipeId \in users[req.caller].savedRecipes

\* the running toggle succeeded: response sent, transaction committed
ToggleSucceeded ==
  /\ pc = "done"
  /\ req.handler = "toggleSaveRecipe"
  /\ thrown = NoError
  /\ res.sent
  /\ txState = "TRANSACTION_COMMITTED"

\* the previous request was a successful toggle of the same pair
SamePairJustToggled ==
  /\ prev.handler = "toggleSaveRecipe"
  /\ prev.ok
  /\ prev.caller = req.caller
  /\ prev.recipeId = req.recipeId

\* C3: after two consecutive successful toggles of the same (user, recipe)
\* pair, savedBy and savedRecipes are what they were before the first one,
\* and the second response carries the isSaved and the saveCount that held
\* before the first one.
C3_ToggleTwiceRestores ==
  (ToggleSucceeded /\ SamePairJustToggled) =>
    /\ recipes[req.recipeId].savedBy = prev.preSavedBy
    /\ users[req.caller].savedRecipes = prev.preSavedRecipes
    /\ res.isSaved = (req.caller \in prev.preSavedBy)
    /\ res.saveCount = Cardinality(prev.preSavedBy)

\* the pair was toggled twice while another user kept the recipe saved
C3_Witness ==
  /\ ToggleSucceeded
  /\ SamePairJustToggled
  /\ prev.preSavedBy # {}
  /\ req.caller \notin prev.preSavedBy
  /\ res.saveCount = 1

\* C4: a toggle by the creator of the recipe fails on the self-save test
\* (status 400) without any write and leaves both sets as they were; no
\* stored recipe has its creator in savedBy.
C4_NoSelfSave ==
  /\ \A r \in DOMAIN recipes : recipes[r].createdBy \notin recipes[r].savedBy
  /\ (/\ pc = "done"
      /\ req.handler = "toggleSaveRecipe"
      /\ req.recipeId \in DOMAIN pre.recipes
      /\ pre.recipes[req.recipeId].createdBy = req.caller)
     => /\ err = "SelfSave"
        /\ thrown # NoError
        /\ res.status = 400
        /\ ~res.sent
        /\ writes = 0
        /\ recipes = pre.recipes
        /\ users = pre.users

\* the creator tried to save a recipe that another user has saved
C4_Witness ==
  /\ pc = "done"
  /\ req.handler = "toggleSaveRecipe"
  /\ err = "SelfSave"
  /\ req.recipeId \in DOMAIN recipes
  /\ recipes[req.recipeId].createdBy = req.caller
  /\ recipes[req.recipeId].savedBy # {}

\* C5: no two stored users share a handle, and no two share an email.
C5_UniqueHandleAndEmail ==
  \A u, v \in DOMAIN users :
    u # v => /\ users[u].username # users[v].username
             /\ users[u].email # users[v].email

\* a sign-up was refused by the unique index while others are registered,
\* one of them under a suffixed handle
C5_Witness ==
  /\ pc = "done"
  /\ req.handler = "signUp"
  /\ err = "DuplicateKey"
  /\ \E u \in DOMAIN users : Len(users[u].username) > 7
                             /\ users[u].username[4] = "."

\* C9: the caller has the body's result only once the transaction is
\* committed.
C9_CommitBeforeReturn ==
  (result # "none") => txState = "TRANSACTION_COMMITTED"

\* a handler that wrote returned normally and its writes are committed
C9_Witness ==
  /\ pc = "done"
  /\ result = "undefined"
  /\ thrown = NoError
  /\ writes > 0
  /\ txState = "TRANSACTION_COMMITTED"
  /\ recipes # pre.recipes

\* C10: whatever the abort call does, the failure raised to the caller is the
\* one the body raised, and the transaction is no longer active by then.
C10_OriginalFailureRethrown ==
  (pc \in {"finally", "done"} /\ BodyRaised) =>
    (thrown = err /\ ~inTransaction)

(***************************************************************************)
(* Properties of the unit-of-work: session release, commit                 *)
(***************************************************************************)
\* C11: every session that was started is ended exactly once: a run that is
\* over has made one endSession call and its session is ended, whatever the
\* body, the commit and the abort did; no session is ended twice.
C11_SessionEndedOnce ==
  /\ endCalls <= 1
  /\ (endCalls = 1) <=> (sessionState = "ended")
  /\ (pc = "done") => (sessionState = "ended" /\ endCalls = 1)
  /\ (pc = "idle") => sessionState = "none"

\* the abort itself threw and the session was still ended
C11_Witness ==
  /\ pc = "done"
  /\ thrown = "AbortError"
  /\ abortCalls = 1
  /\ sessionState = "ended"
  /\ endCalls = 1

\* C12: commitTransaction is invoked at most once in a run; once it has
\* failed the body is not entered again, and the failure raised to the caller
\* is the commit's, with no result returned and no abort attempted.
C12_CommitNotRetried ==
  /\ commitCalls <= 1
  /\ (err = "CommitError") =>
        (pc \in {"catch", "finally", "done"} /\ commitCalls = 1)
  /\ (err = "CommitError" /\ pc \in {"finally", "done"}) =>
        (thrown = "CommitError" /\ result = "none")

\* a commit failed after the body had written, and the run is over
C12_Witness ==
  /\ pc = "done"
  /\ err = "CommitError"
  /\ thrown = "CommitError"
  /\ commitCalls = 1
  /\ writes > 0

(***************************************************************************)
(* Properties of createRecipe                                              *)
(***************************************************************************)
\* the body of createRecipe has read the form fields of an authenticated
\* request
CreateRead == req.handler = "createRecipe" /\ pc \notin
                {"idle", "startTransaction", "cr_validate"}
                /\ req.caller # NoCaller

\* C13: createRecipe with ingredients = "[]", every other field valid and an
\* image attached, fails with the 400 error on ingredients; no operation is
\* issued on the session, nothing is written, the image is neither optimised
\* nor uploaded, and the caller receives that error.
C13_EmptyIngredientsRejected ==
  (CreateRead /\ req.hasFile /\ loc.body = Body(1, 1, 1, EmptyArray, 1)) =>
    /\ pc \in {"catch", "finally", "done"}
    /\ err = "IngredientsNotNonEmptyArray"
    /\ res.status = 400
    /\ ~res.sent
    /\ writes = 0
    /\ txOps = 0
    /\ calls = NoCalls
    /\ recipes = pre.recipes
    /\ users = pre.users
    /\ (pc \in {"finally", "done"} => thrown = err)

\* such a request was made and refused
C13_Witness ==
  /\ pc = "done"
  /\ req.handler = "createRecipe"
  /\ req.hasFile
  /\ loc.body = Body(1, 1, 1, EmptyArray, 1)
  /\ thrown = "IngredientsNotNonEmptyArray"
  /\ calls = NoCalls

ArrayFields == {"nutritionFacts", "ingredients", "instructions"}

\* the value of an array field decodes to a non-empty array
Decodes(v) == v \notin {Absent, Malformed, NonArray, EmptyArray}

\* the errors of createRecipe whose message names the array field f
\* ("Missing required fields: ..." lists the required fields that are absent)
ErrorsNaming(f) ==
  CASE f = "nutritionFacts" -> {"NutritionFactsNotNonEmptyArray"}
    [] f = "ingredients" -> {"IngredientsNotNonEmptyArray", "MissingFields"}
    [] f = "instructions" -> {"InstructionsNotNonEmptyArray", "MissingFields"}

\* C14: in createRecipe, when one of the three array fields does not decode to
\* a non-empty array (missing, malformed JSON, not an array, empty array) and
\* everything else in the request is valid, the call fails with status 400 and
\* an error that names that field.
C14_InvalidArrayFieldNamed ==
  \A f \in ArrayFields :
    (/\ CreateRead
     /\ req.hasFile
     /\ loc.body.name # Absent
     /\ loc.body.prepTime # Absent
     /\ ~Decodes(loc.body[f])
     /\ \A g \in ArrayFields \ {f} : Decodes(loc.body[g]))
    => (err \in ErrorsNaming(f) /\ res.status = 400)

\* C15: in createRecipe an operation reaches the database only after the
\* optimisation and then the upload of the image have succeeded; a failed
\* optimisation fails the call with no upload and no write, a failed upload
\* fails the call with no write.
C15_WriteAfterImagePipeline ==
  (req.handler = "createRecipe") =>
    /\ (txOps > 0 \/ writes > 0) =>
          (calls.optimized = 1 /\ calls.uploaded = 1)
    /\ (calls.upload > 0) => (calls.optimized = 1)
    /\ (calls.optimize > calls.optimized) =>
          /\ calls.upload = 0
          /\ txOps = 0 /\ writes = 0
          /\ recipes = pre.recipes
          /\ err = "FailedToUploadRecipeImage"
          /\ pc \in {"catch", "finally", "done"}
    /\ (calls.upload > calls.uploaded) =>
          /\ txOps = 0 /\ writes = 0
          /\ recipes = pre.recipes
          /\ err = "FailedToUploadRecipeImage"
          /\ pc \in {"catch", "finally", "done"}

\* the upload failed after a successful optimisation: the call failed without
\* touching the database
C15_Witness ==
  /\ pc = "done"
  /\ req.handler = "createRecipe"
  /\ calls.optimized = 1
  /\ calls.upload = 1
  /\ calls.uploaded = 0
  /\ thrown = "FailedToUploadRecipeImage"
  /\ txOps = 0

\* C16: when createRecipe has succeeded, the stored recipe carries the image
\* reference returned by the upload of this call, its creator is the caller,
\* and the image in the 201 response is that of the upload.
C16_StoredImageIsUploaded ==
  (req.handler = "createRecipe" /\ result # "none") =>
    /\ calls.uploaded = 1
    /\ loc.image = nextImage - 1
    /\ loc.image \in images
    /\ loc.newId \in DOMAIN recipes
    /\ recipes[loc.newId].image = loc.image
    /\ recipes[loc.newId].createdBy = req.caller
    /\ res.sent /\ res.status = 201
    /\ res.image = loc.image

\* a recipe was created and committed with the uploaded image
C16_Witness ==
  /\ pc = "done"
  /\ req.handler = "createRecipe"
  /\ thrown = NoError
  /\ result # "none"
  /\ loc.newId \in DOMAIN recipes
  /\ loc.newId \notin DOMAIN pre.recipes
  /\ recipes[loc.newId].image = loc.image
  /\ loc.image # NoImage

(***************************************************************************)
(* Properties of updateRecipe and of the best-effort image deletes         *)
(***************************************************************************)
\* the body of updateRecipe, called by a stored user for a stored recipe, is
\* past its checks
UpdateChecked ==
  /\ req.handler = "updateRecipe"
  /\ pc \notin {"idle", "startTransaction", "up_check"}
  /\ req.caller \in DOMAIN users
  /\ req.recipeId \in DOMAIN pre.recipes

\* the caller is the creator of the recipe or has the role admin
MayUpdate ==
  \/ pre.recipes[req.recipeId].createdBy = req.caller
  \/ users[req.caller].role = "admin"

\* C17: updateRecipe by a caller who is neither the creator of the recipe nor
\* an admin fails in its body with "Not authorized to update this recipe"
\* (401), the stored recipe is unchanged and the image is neither optimised,
\* uploaded nor deleted; the creator and an admin never get that error.
C17_UpdateAuthorization ==
  UpdateChecked =>
    IF MayUpdate
      THEN err # "NotAuthorized"
      ELSE /\ err = "NotAuthorized"
           /\ res.status = 401
           /\ ~res.sent
           /\ pc \in {"catch", "finally", "done"}
           /\ writes = 0
           /\ calls = NoCalls
           /\ recipes = pre.recipes
           /\ result = "none"

\* a user who neither created the recipe nor is an admin sent an update with
\* a new image and was refused
C17_Witness ==
  /\ pc = "done"
  /\ UpdateChecked
  /\ ~MayUpdate
  /\ req.hasFile
  /\ thrown = "NotAuthorized"
  /\ recipes = pre.recipes

\* C18: in updateRecipe, when an array field that is supplied does not decode
\* to a non-empty array, the body fails with a 400 format error, the
\* transaction is never committed and its abort is called, and the stored
\* recipe keeps every field, also the valid scalar fields of that request.
C18_InvalidArrayNoPartialUpdate ==
  (/\ UpdateChecked
   /\ \E f \in ArrayFields :
        loc.body[f] # Absent /\ ~Decodes(loc.body[f])) =>
    /\ err \in {"InvalidNutritionFactsFormat", "InvalidIngredientsFormat",
                 "InvalidInstructionsFormat"}
    /\ res.status = 400
    /\ ~res.sent
    /\ pc \in {"catch", "finally", "done"}
    /\ writes = 0
    /\ calls = NoCalls
    /\ recipes = pre.recipes
    /\ commitCalls = 0
    /\ txState # "TRANSACTION_COMMITTED"
    /\ (pc \in {"finally", "done"} => abortCalls = 1)

\* an update with a new name and an empty ingredients array was refused and
\* aborted; the stored name is the old one
C18_Witness ==
  /\ pc = "done"
  /\ UpdateChecked
  /\ loc.body.name = 2
  /\ loc.body.ingredients = EmptyArray
  /\ thrown = "InvalidIngredientsFormat"
  /\ txState = "TRANSACTION_ABORTED"
  /\ req.recipeId \in DOMAIN recipes
  /\ recipes[req.recipeId].name = 1

\* C19: in updateRecipe the delete of the old image is attempted only after
\* the upload of the new one has succeeded; when the optimisation or the
\* upload fails, no delete is attempted, the old image is still stored, the
\* stored recipe (its image reference included) is unchanged and the body
\* fails.
C19_DeleteOldAfterUpload ==
  (req.handler = "updateRecipe") =>
    /\ (calls.destroy > 0) => (calls.optimized = 1 /\ calls.uploaded = 1)
    /\ (calls.optimize > calls.optimized \/ calls.upload > calls.uploaded) =>
          /\ calls.destroy = 0
          /\ images = pre.images
          /\ recipes = pre.recipes
          /\ writes = 0
          /\ err = "FailedToUploadNewRecipeImage"
          /\ res.status = 500
          /\ pc \in {"catch", "finally", "done"}

\* the upload of the replacement failed: the old image is still there and
\* the recipe still refers to it
C19_Witness ==
  /\ pc = "done"
  /\ req.handler = "updateRecipe"
  /\ calls.upload = 1
  /\ calls.uploaded = 0
  /\ calls.destroy = 0
  /\ loc.oldImage \in images
  /\ recipes[req.recipeId].image = loc.oldImage
  /\ thrown = "FailedToUploadNewRecipeImage"

\* a best-effort image delete was attempted in this run and failed
DestroyFailed == calls.destroy > calls.destroyed

\* C20: a failed best-effort image delete does not fail the operation.  In
\* updateRecipe the body goes on to the save: only the save, the populate or
\* the commit can still fail it, and otherwise the new document is committed
\* and the 200 response sent.  In deleteRecipe the 200 response is sent and
\* only the commit can still fail; otherwise the recipe is gone.
C20_BestEffortDeleteSwallowed ==
  /\ (req.handler = "updateRecipe" /\ DestroyFailed) =>
        /\ err \in {NoError, "SaveError", "PopulateError", "CommitError"}
        /\ (pc \in {"return", "finally", "done"} /\ err = NoError) =>
              /\ thrown = NoError
              /\ txState = "TRANSACTION_COMMITTED"
              /\ res.sent /\ res.success /\ res.status = 200
              /\ recipes[req.recipeId] = loc.doc
              /\ recipes[req.recipeId].image = loc.image
  /\ (req.handler = "deleteRecipe" /\ DestroyFailed) =>
        /\ err \in {NoError, "CommitError"}
        /\ res.sent /\ res.success /\ res.status = 200
        /\ (pc \in {"return", "finally", "done"} /\ err = NoError) =>
              /\ thrown = NoError
              /\ txState = "TRANSACTION_COMMITTED"
              /\ req.recipeId \notin DOMAIN recipes

\* the delete of the old image failed, and the update was committed and
\* answered with 200 all the same
C20_Witness ==
  /\ pc = "done"
  /\ req.handler = "updateRecipe"
  /\ calls.destroy = 1
  /\ calls.destroyed = 0
  /\ thrown = NoError
  /\ res.status = 200
  /\ recipes[req.recipeId].image = loc.image
  /\ loc.oldImage \in images


(***************************************************************************)
(* Claims on deleteRecipe                                                  *)
(***************************************************************************)
\* the body of deleteRecipe, called by a stored user for a stored recipe, is
\* past its checks
DeleteChecked ==
  /\ req.handler = "deleteRecipe"
  /\ pc \notin {"idle", "startTransaction", "de_check"}
  /\ req.caller \in DOMAIN users
  /\ req.recipeId \in DOMAIN pre.recipes

\* the caller is the creator of the recipe or has the role admin
MayDelete ==
  \/ pre.recipes[req.recipeId].createdBy = req.caller
  \/ users[req.caller].role = "admin"

\* C21: deleteRecipe by a caller who is neither the creator of the recipe nor
\* an admin is answered with status 403 and success false; nothing is written,
\* the recipe still exists, the saved set of every user is unchanged and no
\* image delete is attempted.
C21_DeleteRefused ==
  (DeleteChecked /\ ~MayDelete) =>
    /\ res.status = 403
    /\ res.sent
    /\ ~res.success
    /\ writes = 0
    /\ calls.destroy = 0
    /\ images = pre.images
    /\ recipes = pre.recipes
    /\ req.recipeId \in DOMAIN recipes
    /\ \A u \in DOMAIN users :
         users[u].savedRecipes = pre.users[u].savedRecipes

\* a user who neither created the recipe nor is an admin asked to delete a
\* recipe that another user has saved, and the run is over
C21_Witness ==
  /\ pc = "done"
  /\ DeleteChecked
  /\ ~MayDelete
  /\ res.status = 403
  /\ \E u \in DOMAIN users : req.recipeId \in users[u].savedRecipes

\* the transaction of a deleteRecipe run that answered 200 has committed
DeleteCommitted ==
  /\ req.handler = "deleteRecipe"
  /\ req.recipeId \in DOMAIN pre.recipes
  /\ res.status = 200
  /\ res.sent
  /\ txState = "TRANSACTION_COMMITTED"

\* C22: after a deleteRecipe that answered 200 and committed, the recipe no
\* longer exists, the other recipes are as before, the saved set of every
\* user is its former saved set without the id of the recipe, and the delete
\* of the stored image was attempted exactly once.
C22_DeleteCascade ==
  DeleteCommitted =>
    /\ req.recipeId \notin DOMAIN recipes
    /\ recipes = Remove(pre.recipes, req.recipeId)
    /\ DOMAIN users = DOMAIN pre.users
    /\ \A u \in DOMAIN users :
         /\ req.recipeId \notin users[u].savedRecipes
         /\ users[u].savedRecipes =
              pre.users[u].savedRecipes \ {req.recipeId}
    /\ calls.destroy = 1

\* a recipe that two users had saved, one of them together with another
\* recipe, was deleted
C22_Witness ==
  /\ pc = "done"
  /\ DeleteCommitted
  /\ Cardinality({u \in DOMAIN pre.users :
                    req.recipeId \in pre.users[u].savedRecipes}) >= 2
  /\ \E u \in DOMAIN users :
       /\ req.recipeId \in pre.users[u].savedRecipes
       /\ users[u].savedRecipes # {}

\* C23: in deleteRecipe the delete of the stored image is attempted only once
\* the transaction has committed, so a recipe that is still stored after the
\* run has its image.
C23_ImageDeleteAfterCommit ==
  req.handler = "deleteRecipe" =>
    /\ calls.destroy > 0 => txState = "TRANSACTION_COMMITTED"
    /\ (pc = "done" /\ req.recipeId \in DOMAIN recipes) =>
         recipes[req.recipeId].image \in images

(***************************************************************************)
(* Claims on toggleSaveRecipe                                              *)
(***************************************************************************)
\* the body of toggleSaveRecipe is past its checks and reads
ToggleRead ==
  /\ req.handler = "toggleSaveRecipe"
  /\ pc \notin {"idle", "startTransaction", "tg_check"}

\* the body failed with error e and status s before any write: no savedBy
\* set and no savedRecipes set differs from what it was at the call
ToggleRefused(e, s) ==
  /\ err \in e
  /\ res.status = s
  /\ ~res.sent
  /\ result = "none"
  /\ pc \in {"catch", "finally", "done"}
  /\ writes = 0
  /\ txState # "TRANSACTION_COMMITTED"
  /\ \A r \in DOMAIN pre.recipes :
       r \in DOMAIN recipes /\ recipes[r].savedBy = pre.recipes[r].savedBy
  /\ \A u \in DOMAIN pre.users :
       u \in DOMAIN users
         /\ users[u].savedRecipes = pre.users[u].savedRecipes

\* C24: the body of toggleSaveRecipe fails with 401 when the caller is
\* unauthenticated, with 400 when the recipe id is missing, and with 404 when
\* the user or the recipe is not stored; in each case no savedBy set and no
\* savedRecipes set is changed.
C24_ToggleRefusals ==
  ToggleRead =>
    /\ req.caller = NoCaller => ToggleRefused({"Unauthorized"}, 401)
    /\ (req.caller # NoCaller /\ req.recipeId = NoRecipeId) =>
         ToggleRefused({"RecipeIdMissing"}, 400)
    /\ (/\ req.caller # NoCaller
        /\ req.recipeId # NoRecipeId
        /\ req.caller \notin DOMAIN pre.users) =>
         ToggleRefused({"UserNotFound"}, 404)
    /\ (/\ req.caller \in DOMAIN pre.users
        /\ req.recipeId # NoRecipeId
        /\ req.recipeId \notin DOMAIN pre.recipes) =>
         ToggleRefused({"RecipeNotFound"}, 404)

\* a stored user toggled a recipe that is not stored, while another recipe
\* is saved by someone, and the run ended with the not-found error
C24_Witness ==
  /\ pc = "done"
  /\ ToggleRead
  /\ req.caller \in DOMAIN pre.users
  /\ req.recipeId # NoRecipeId
  /\ req.recipeId \notin DOMAIN pre.recipes
  /\ thrown = "RecipeNotFound"
  /\ \E r \in DOMAIN recipes : recipes[r].savedBy # {}

\* a toggleSaveRecipe run answered 200 and its transaction has committed
ToggleCommitted ==
  /\ req.handler = "toggleSaveRecipe"
  /\ res.sent
  /\ res.status = 200
  /\ res.success
  /\ txState = "TRANSACTION_COMMITTED"

\* C25: after a toggle that answered 200 and committed, isSaved is the
\* negation of the caller's membership in the savedBy set of the recipe at the
\* call, the caller is in savedBy and the recipe in the caller's savedRecipes
\* exactly when isSaved is true, and saveCount is the size of savedBy after
\* the update.
C25_ToggleResult ==
  ToggleCommitted =>
    LET was == req.caller \in pre.recipes[req.recipeId].savedBy
    IN  /\ res.isSaved = ~was
        /\ (req.caller \in recipes[req.recipeId].savedBy) = res.isSaved
        /\ (req.recipeId \in users[req.caller].savedRecipes) = res.isSaved
        /\ res.saveCount = Cardinality(recipes[req.recipeId].savedBy)
        /\ recipes[req.recipeId].savedBy =
             IF was THEN pre.recipes[req.recipeId].savedBy \ {req.caller}
                    ELSE pre.recipes[req.recipeId].savedBy \cup {req.caller}

\* a user saved a recipe that another user had already saved: the answer is
\* isSaved true with saveCount two
C25_Witness ==
  /\ pc = "done"
  /\ ToggleCommitted
  /\ res.isSaved
  /\ res.saveCount = 2
  /\ pre.recipes[req.recipeId].savedBy # {}

(***************************************************************************)
(* The error boundary (middlewares/error.middleware.ts, app.ts)            *)
(***************************************************************************)
\* err.statusCode of an error that has no such property
NoStatusCode == 0

\* the error object behind each failure: the handlers throw new Error(msg)
\* after res.status(n), the driver and mongoose throw their own errors; none
\* of them carries a statusCode
ErrorObject(e) ==
  [name |-> CASE e = "DuplicateKey" -> "MongoServerError"
              [] e = "ValidationError" -> "ValidationError"
              [] e = "SyntaxError" -> "SyntaxError"
              [] OTHER -> "Error",
   code |-> IF e = "DuplicateKey" THEN 11000 ELSE 0,
   statusCode |-> NoStatusCode,
   message |-> e]

\* errorMiddleware: status from err.statusCode || 500, message rewritten for
\* cast, duplicate-key and validation errors, JSON envelope
errorMiddleware(e) ==
  LET o == ErrorObject(e)
  IN  [status |-> IF o.statusCode # NoStatusCode THEN o.statusCode ELSE 500,
       format |-> "json",
       success |-> FALSE,
       message |-> IF o.name = "CastError" THEN "Resource not found."
                   ELSE IF o.name = "MongoServerError" /\ o.code = 11000
                     THEN "Duplicate value entered"
                   ELSE o.message]

\* the handler Express falls back to when no error middleware follows the
\* route: an HTML page, with the status of the error, else the status set on
\* the response when that is an error status, else 500
finalhandler(e, r) ==
  LET o == ErrorObject(e)
  IN  [status |-> IF o.statusCode # NoStatusCode THEN o.statusCode
                  ELSE IF r.status >= 400 THEN r.status ELSE 500,
       format |-> "html",
       success |-> FALSE,
       message |-> o.message]

\* app.use(errorMiddleware) at app.ts 26 precedes the routers mounted at 29
\* and 30, so an error passed on by a handler of those routers skips it; the
\* mounting of the recipe router is not part of app.ts, so for its handlers
\* both orders are possible
ErrorMiddlewareFollows(h) == IF h = "signUp" THEN {FALSE} ELSE BOOLEAN

\* the responses a client may receive for the run that has ended: the one
\* the handler sent, if it sent one (a later error cannot replace it), else
\* the one built from the error passed to next()
ClientResponses ==
  IF res.sent \/ thrown = NoError
    THEN {[status |-> res.status, format |-> "json", success |-> res.success,
           message |-> NoError]}
    ELSE {IF f THEN errorMiddleware(thrown) ELSE finalhandler(thrown, res) :
            f \in ErrorMiddlewareFollows(req.handler)}

\* the status of the class of each failure
ClassStatus(e) ==
  CASE e \in {"RecipeIdMissing", "SelfSave", "MissingCredentials",
              "InvalidEmail", "WeakPassword", "UserExists", "MissingFields",
              "NutritionFactsNotNonEmptyArray", "IngredientsNotNonEmptyArray",
              "InstructionsNotNonEmptyArray", "ImageRequired",
              "InvalidNutritionFactsFormat", "InvalidIngredientsFormat",
              "InvalidInstructionsFormat"} -> 400
    [] e \in {"Unauthorized", "NotAuthorized"} -> 401
    [] e \in {"UserNotFound", "RecipeNotFound"} -> 404
    [] e \in {"FailedToUploadRecipeImage", "FailedToUploadNewRecipeImage",
              "AllocationExhausted", "CommitError"} -> 500

Classified ==
  {"RecipeIdMissing", "SelfSave", "MissingCredentials", "InvalidEmail",
   "WeakPassword", "UserExists", "MissingFields",
   "NutritionFactsNotNonEmptyArray", "IngredientsNotNonEmptyArray",
   "InstructionsNotNonEmptyArray", "ImageRequired",
   "InvalidNutritionFactsFormat", "InvalidIngredientsFormat",
   "InvalidInstructionsFormat", "Unauthorized", "NotAuthorized",
   "UserNotFound", "RecipeNotFound", "FailedToUploadRecipeImage",
   "FailedToUploadNewRecipeImage", "AllocationExhausted", "CommitError"}

\* C26: every failure thrown by a route handler reaches the client as a JSON
\* envelope with success false whose status is the one of the class of the
\* failure (400 validation, 401 authorization, 404 not found, 500 upload,
\* allocation and commit failures).
C26_ErrorBoundaryMapping ==
  (pc = "done" /\ thrown \in Classified) =>
    \A r \in ClientResponses :
      /\ r.format = "json"
      /\ ~r.success
      /\ r.status = ClassStatus(thrown)

\* C27: when a signUp run and another sign-up both find the handle free, no
\* two stored users share a handle, and the run that loses fails with the
\* duplicate-key error, which reaches the client with status 400.
C27_DuplicateKeySurfaced ==
  /\ \A u, v \in DOMAIN users :
       users[u].username = users[v].username => u = v
  /\ (/\ req.handler = "signUp"
      /\ pc = "done"
      /\ thrown = "DuplicateKey"
      /\ \E u \in (DOMAIN users) \ (DOMAIN pre.users) :
           /\ users[u].username = allocResult
           /\ users[u].email # emailSetter(req.email)) =>
       \A r \in ClientResponses : r.status = 400

(***************************************************************************)
(* Claims on the frame of updateRecipe                                     *)
(***************************************************************************)
BodyFields == {"name", "prepTime", "nutritionFacts", "ingredients",
               "instructions"}

\* an updateRecipe run answered 200 and its transaction has committed
UpdateCommitted ==
  /\ req.handler = "updateRecipe"
  /\ req.recipeId \in DOMAIN pre.recipes
  /\ res.sent
  /\ res.status = 200
  /\ txState = "TRANSACTION_COMMITTED"

\* C29: after an update that answered 200 and committed, every field of the
\* recipe that the request did not supply has its prior value and every
\* supplied field has the supplied value, the image reference is the prior
\* one when no file was sent, and the other recipes and the users are
\* untouched; in no state of an update run, successful or not, do the creator
\* and the savedBy set of the recipe differ from what they were at the call.
C29_UpdateFrame ==
  /\ UpdateCommitted =>
       LET old == pre.recipes[req.recipeId]
           new == recipes[req.recipeId]
       IN  /\ \A f \in BodyFields :
                new[f] = IF loc.body[f] = Absent THEN old[f] ELSE loc.body[f]
           /\ ~req.hasFile => new.image = old.image
           /\ \A r \in (DOMAIN pre.recipes) \ {req.recipeId} :
                r \in DOMAIN recipes /\ recipes[r] = pre.recipes[r]
           /\ DOMAIN recipes = DOMAIN pre.recipes
           /\ users = pre.users
  /\ (req.handler = "updateRecipe" /\ req.recipeId \in DOMAIN pre.recipes) =>
       /\ req.recipeId \in DOMAIN recipes
       /\ recipes[req.recipeId].createdBy =
            pre.recipes[req.recipeId].createdBy
       /\ recipes[req.recipeId].savedBy = pre.recipes[req.recipeId].savedBy

\* an update that supplied only a new name, for a recipe that a user has
\* saved, committed: the name is the new one
C29_Witness ==
  /\ pc = "done"
  /\ UpdateCommitted
  /\ loc.body.name # Absent
  /\ recipes[req.recipeId].name # pre.recipes[req.recipeId].name
  /\ \A f \in BodyFields \ {"name"} : loc.body[f] = Absent
  /\ ~req.hasFile
  /\ recipes[req.recipeId].savedBy # {}

(***************************************************************************)
(* Claims on the life of a recipe                                          *)
(***************************************************************************)
\* the recipe the request names was removed before the request arrived
OnDeletedRecipe ==
  /\ req.recipeId \in deleted
  /\ req.recipeId \notin DOMAIN pre.recipes

\* the run failed with "Recipe not found" (404) and wrote nothing
NotFoundReply ==
  /\ err = "RecipeNotFound"
  /\ res.status = 404
  /\ ~res.sent
  /\ writes = 0

\* no removed recipe is stored, and a request of an authenticated caller on
\* a removed recipe fails with not-found once the handler has looked it up
DeletedIsTerminal ==
  /\ deleted \cap DOMAIN recipes = {}
  /\ OnDeletedRecipe =>
       /\ (req.handler = "getRecipeById" /\ pc = "replied") =>
            (NotFoundReply /\ thrown = "RecipeNotFound")
       /\ (/\ req.handler \in {"updateRecipe", "deleteRecipe"}
           /\ pc \notin {"idle", "startTransaction", "up_check", "de_check"}
           /\ req.caller # NoCaller) => NotFoundReply
       /\ (/\ req.handler = "toggleSaveRecipe"
           /\ pc \notin {"idle", "startTransaction", "tg_check"}
           /\ req.caller \in DOMAIN pre.users) => NotFoundReply

\* a step changes the stored recipes only along none -> created -> deleted:
\* a recipe appears at the commit of a createRecipe and was never stored
\* before, changes at the commit of an updateRecipe or toggleSaveRecipe that
\* names it, and disappears for good at the commit of a deleteRecipe that
\* names it
LifecycleStep ==
  /\ deleted \subseteq deleted'
  /\ \A r \in RecipeIds :
       /\ (r \notin DOMAIN recipes /\ r \in DOMAIN recipes') =>
            (req.handler = "createRecipe" /\ pc = "commit"
               /\ r \notin deleted)
       /\ (r \in DOMAIN recipes /\ r \notin DOMAIN recipes') =>
            (req.handler = "deleteRecipe" /\ pc = "commit"
               /\ r = req.recipeId /\ r \in deleted')
       /\ (/\ r \in DOMAIN recipes
           /\ r \in DOMAIN recipes'
           /\ recipes'[r] # recipes[r]) =>
            (req.handler \in {"updateRecipe", "toggleSaveRecipe"}
               /\ pc = "commit" /\ r = req.recipeId)

\* C28: a recipe moves none -> created -> deleted with updates in between,
\* and deleted is terminal: once the deleteRecipe of r has committed, r is
\* never stored again and every later getRecipeById, updateRecipe,
\* deleteRecipe and toggleSaveRecipe on r fails with "Recipe not found" (404).
C28_RecipeLifecycle == [](DeletedIsTerminal) /\ [][LifecycleStep]_vars

\* a recipe was created, deleted, another recipe was created after it, and a
\* toggle on the deleted recipe ended with the not-found error
C28_Witness ==
  /\ pc = "done"
  /\ req.handler = "toggleSaveRecipe"
  /\ OnDeletedRecipe
  /\ thrown = "RecipeNotFound"
  /\ \E r \in DOMAIN recipes : r > req.recipeId

(***************************************************************************)
(* Claims on concurrent toggles                                            *)
(***************************************************************************)
\* the two sides of the relation agree in the committed state
TwoSidesAgree ==
  \A u \in DOMAIN users, r \in DOMAIN recipes :
    (u \in recipes[r].savedBy) <=> (r \in users[u].savedRecipes)

\* the step that commits a toggleSaveRecipe run has the effect and the
\* answer of that toggle executed alone on the state committed just before
\* the step: the runs that commit are serial in the order of their commits
CommitIsSerialToggle ==
  (/\ req.handler = "toggleSaveRecipe"
   /\ pc = "commit"
   /\ txState' = "TRANSACTION_COMMITTED") =>
    LET u == req.caller
        r == req.recipeId
        was == u \in recipes[r].savedBy
    IN  /\ recipes'[r].savedBy = IF was THEN recipes[r].savedBy \ {u}
                                        ELSE recipes[r].savedBy \cup {u}
        /\ users'[u].savedRecipes = IF was THEN users[u].savedRecipes \ {r}
                                           ELSE users[u].savedRecipes \cup {r}
        /\ \A x \in (DOMAIN recipes) \ {r} : recipes'[x] = recipes[x]
        /\ \A x \in (DOMAIN users) \ {u} : users'[x] = users[x]
        /\ res.isSaved = ~was
        /\ res.saveCount = Cardinality(recipes'[r].savedBy)

\* C30: for every interleaving of a toggleSaveRecipe run with concurrent
\* toggles on the same or another recipe, by the same or another user, every
\* run that commits has the effect on savedBy and savedRecipes and returns
\* the isSaved and saveCount of a serial execution in commit order, and the
\* two sides of the relation agree in every committed state.
C30_ConcurrentTogglesSerialize ==
  [](TwoSidesAgree) /\ [][CommitIsSerialToggle]_vars

\* while a run was between its read and its write of the recipe, another
\* user's toggle of the same recipe committed; the run was rejected with a
\* write conflict and the other toggle is what the store holds
C30_Witness ==
  /\ pc = "done"
  /\ req.handler = "toggleSaveRecipe"
  /\ thrown = "WriteConflict"
  /\ recipes[req.recipeId].savedBy # pre.recipes[req.recipeId].savedBy
  /\ users[req.caller] = pre.users[req.caller]
  /\ txState = "TRANSACTION_ABORTED"

(***************************************************************************)
(* Claims on the use of the session                                        *)
(***************************************************************************)
\* C31: every database read and write issued by the bodies of signUp,
\* createRecipe, updateRecipe, deleteRecipe and toggleSaveRecipe is issued on
\* the session of withTransaction: no run issues a database operation
\* without it.
C31_AllOpsOnSession ==
  req.handler \in {"signUp", "createRecipe", "updateRecipe", "deleteRecipe",
                   "toggleSaveRecipe"} => calls.offSession = 0

(***************************************************************************)
(* Claims on the propagation of failures                                   *)
(***************************************************************************)
\* C32: in createRecipe, when Recipe.create or the populated re-read fails
\* after the upload has succeeded, the transaction is aborted and the failure
\* raised by the body is the persistence failure that was caught, unchanged.
C32_PersistenceFailureUnchanged ==
  (/\ req.handler = "createRecipe"
   /\ calls.uploaded = 1
   /\ loc.caught # NoError) =>
    /\ err = loc.caught
    /\ pc \in {"catch", "finally", "done"}
    /\ (pc \in {"finally", "done"} => abortCalls = 1)

\* a step that invokes abortTransaction is the first such step of the run,
\* is taken in the catch block, and finds the transaction of the session
\* started or in progress
GuardedAbortStep ==
  (abortCalls' > abortCalls) =>
    /\ abortCalls = 0
    /\ abortCalls' = 1
    /\ pc = "catch"
    /\ txState \in {"STARTING_TRANSACTION", "TRANSACTION_IN_PROGRESS"}

\* C33: in every run of withTransaction abortTransaction is invoked at most
\* once, only when the session is in a transaction, and never in a run whose
\* commit succeeded.
C33_GuardedAbort ==
  /\ [](abortCalls <= 1)
  /\ []((txState = "TRANSACTION_COMMITTED") => abortCalls = 0)
  /\ [][GuardedAbortStep]_vars

\* the commit of a run that wrote was rejected: the catch block found no
\* active transaction and the run ended without an abort call
C33_Witness ==
  /\ pc = "done"
  /\ thrown = "CommitError"
  /\ writes > 0
  /\ commitCalls = 1
  /\ abortCalls = 0

\* ---------------------------------------------------------------------
\* the wrapper under fair scheduling: every await of a run returns, so a
\* step that is enabled is eventually taken
NextToggleFair ==
  \/ ToggleRequest
  \/ StartTransaction
  \/ ToggleCheck
  \/ ToggleUpdateRecipe
  \/ ToggleUpdateUser
  \/ CommitTransaction
  \/ ReturnResult
  \/ CatchAbortRethrow
  \/ EndSession
  \/ Finish(FALSE)

SpecToggleFair ==
  InitToggle /\ [][NextToggleFair]_vars /\ WF_vars(NextToggleFair)

\* the transaction is over: committed, aborted, or its commit was rejected
\* and nothing of it was applied
TransactionClosed ==
  txState \in {"TRANSACTION_COMMITTED", "TRANSACTION_ABORTED", "COMMIT_FAILED"}

AlphabetSymbols == {usernameAlphabet[i] : i \in 1..Len(usernameAlphabet)}

\* the suffix of the candidate the loop generated last
LastSuffix == SubSeq(lastCand, Len(username) + 2, Len(lastCand))

\* every generated suffix has SuffixLen characters of the alphabet
SuffixWellFormed ==
  /\ Len(LastSuffix) = 6
  /\ \A i \in 1..Len(LastSuffix) : LastSuffix[i] \in AlphabetSymbols

\* C35 as stated: the alphabet from which handle suffixes are drawn has
\* exactly 30 symbols, and every generated suffix has exactly 6 characters
\* from it.
C35_ThirtySymbols ==
  (checks >= 2) =>
    /\ Cardinality(AlphabetSymbols) = 30
    /\ SuffixWellFormed

\* C35, amended: the alphabet from which handle suffixes are drawn has
\* exactly 29 distinct symbols (21 consonants and the digits 2 to 9), and
\* every generated suffix has exactly 6 characters from it.
C35_SuffixAlphabet ==
  (checks >= 2) =>
    /\ Len(usernameAlphabet) = 29
    /\ Cardinality(AlphabetSymbols) = 29
    /\ SuffixWellFormed

\* a run that generated a suffixed candidate
C35_Witness ==
  /\ checks = 2
  /\ attempts = 1
  /\ Len(lastCand) = Len(username) + 7
  /\ lastCand[Len(username) + 1] = "."

\* ---------------------------------------------------------------------
\* the handlers whose body runs inside withTransaction
WrappedHandlers ==
  {"signUp", "createRecipe", "updateRecipe", "deleteRecipe",
   "toggleSaveRecipe"}

\* the client was sent a success response
SuccessSent == res.sent /\ res.status \in 200..299

\* C36: a success response implies a committed transaction: no run of a
\* wrapped handler ends with a 2xx response sent to the client while the
\* writes of its transaction are not committed.
C36_SuccessImpliesCommitted ==
  (/\ pc = "done"
   /\ req.handler \in WrappedHandlers
   /\ SuccessSent) => txState = "TRANSACTION_COMMITTED"

\* ---------------------------------------------------------------------
\* C37: no dangling image reference: whatever createRecipe, updateRecipe
\* and deleteRecipe runs have happened, failed ones included, the image of
\* every recipe in the database exists in external storage.
C37_NoDanglingImage ==
  (pc \in {"idle", "done"}) =>
    \A r \in DOMAIN recipes : recipes[r].image \in images

\* ---------------------------------------------------------------------
\* app.ts 299-313: a string the schema accepts as name or as username
LengthAccepted(str) ==
  /\ Len(trim(str)) >= MinNameLen
  /\ Len(trim(str)) <= MaxNameLen

\* C38: every handle generateUniqueUsername returns satisfies the username
\* constraints of the User schema (present, 3 to 30 characters): for a
\* display name the schema accepts, signUp does not fail schema validation
\* because of the generated handle.
C38_HandleSatisfiesSchema ==
  (/\ req.handler = "signUp"
   /\ allocPc = "returned"
   /\ LengthAccepted(req.name)) =>
    /\ LengthAccepted(allocResult)
    /\ (err = "ValidationError" =>
          ~emailSchemaMatch(emailSetter(req.email)))

\* ---------------------------------------------------------------------
\* user.controller.ts line 23: /^[a-zA-Z0-9]+$/.test(username)
getUserFormat(uname) ==
  /\ uname # << >>
  /\ \A i \in 1..Len(uname) :
       uname[i] \in LowerChars \cup UpperChars \cup DigitChars

\* user.controller.ts line 154: /^[a-zA-Z0-9_]+$/.test(username)
getUserSharedRecipesFormat(uname) ==
  /\ uname # << >>
  /\ \A i \in 1..Len(uname) :
       uname[i] \in LowerChars \cup UpperChars \cup DigitChars \cup {"_"}

\* C39: every handle signUp assigns (the sanitized base, or the sanitized
\* base followed by "." and a 6-character suffix) passes the format checks
\* of getUser and getUserSharedRecipes, so every registered user can be
\* looked up by the handle they were given.
C39_AssignedHandleLookupable ==
  (/\ req.handler = "signUp"
   /\ pc = "done"
   /\ thrown = NoError
   /\ writes > 0) =>
    /\ \E u \in DOMAIN users : users[u].username = allocResult
    /\ getUserFormat(allocResult)
    /\ getUserSharedRecipesFormat(allocResult)

(***************************************************************************)
(* createRecipe, toggleSaveRecipe and deleteRecipe next to concurrent      *)
(* toggleSaveRecipe and deleteRecipe runs                                  *)
(***************************************************************************)
\* the documents the observed run has written in its transaction so far
WrittenRecipes ==
  {r \in (DOMAIN pre.recipes) \cup (DOMAIN txRecipes) :
     \/ r \notin DOMAIN txRecipes
     \/ r \notin DOMAIN pre.recipes
     \/ txRecipes[r] # pre.recipes[r]}

WrittenUsers ==
  {u \in (DOMAIN pre.users) \cup (DOMAIN txUsers) :
     \/ u \notin DOMAIN txUsers
     \/ u \notin DOMAIN pre.users
     \/ txUsers[u] # pre.users[u]}

\* the observed run is between its reads and the end of its commit
BetweenReadsAndCommit ==
  pc \in {"tg_recipe", "tg_user", "de_delete", "de_pull", "de_image",
          "commit"}

\* helper.ts 580-638: a concurrent toggleSaveRecipe run of user u on recipe
\* r, from its reads to its commit; it cannot commit a document the observed
\* run has already written (its own write would be the one rejected)
ConcurrentToggleCommits ==
  /\ BetweenReadsAndCommit
  /\ \E u \in DOMAIN users, r \in DOMAIN recipes :
       /\ ~IsOwnRecipe(recipes[r], u)
       /\ r \notin WrittenRecipes
       /\ u \notin WrittenUsers
       /\ LET isSaved == u \in recipes[r].savedBy
              d == [recipes[r] EXCEPT !.savedBy =
                      IF isSaved THEN Pull(@, u) ELSE AddToSet(@, u)]
          IN  /\ recipes' = Put(recipes, r, d)
              /\ users' = Put(users, u, UserSideUpdate(users[u], isSaved, r))
  /\ UNCHANGED << images, nextUser, nextRecipe, nextImage, txVars, runVars,
                  histVars, allocVars >>

\* helper.ts 497-544: a concurrent deleteRecipe run on recipe r by its
\* creator or an admin, from its reads to its commit; it cannot commit a
\* document the observed run has already written
ConcurrentDeleteCommits ==
  /\ BetweenReadsAndCommit
  /\ \E c \in DOMAIN users, r \in DOMAIN recipes, destroyed \in BOOLEAN :
       /\ recipes[r].createdBy = c \/ IsAdmin(c)
       /\ r \notin WrittenRecipes
       /\ MatchedUsers(users, r) \cap WrittenUsers = {}
       /\ recipes' = Remove(recipes, r)
       /\ users' = [u \in DOMAIN users |->
                      [users[u] EXCEPT !.savedRecipes = Pull(@, r)]]
       /\ images' = IF destroyed THEN images \ {recipes[r].image} ELSE images
       /\ deleted' = deleted \cup {r}
  /\ UNCHANGED << nextUser, nextRecipe, nextImage, txVars, runVars, pre,
                  writes, prev, calls, allocVars >>

\* three users and one recipe that nobody has saved
InitBookmarks ==
  /\ users = ToggleUsers
  /\ \E creator \in DOMAIN ToggleUsers :
       recipes = [r \in {1} |->
                    [createdBy |-> creator, savedBy |-> {}, image |-> 1,
                     name |-> 1, prepTime |-> 1, nutritionFacts |-> 1,
                     ingredients |-> 1, instructions |-> 1]]
  /\ images = {1}
  /\ nextUser = Len(ToggleUsers) + 1
  /\ nextRecipe = 2
  /\ nextImage = 2
  /\ RunIdle
  /\ AllocIdle
  /\ prev = NoPrev
  /\ deleted = {}

OneCreateBody == {Body(1, 1, 1, 1, 1)}

NextBookmarks ==
  \/ CreateRequest
  \/ CreateValidate(OneCreateBody)
  \/ CreateOptimize
  \/ CreateUpload
  \/ CreateInsert
  \/ CreateReread
  \/ DeleteRequest
  \/ DeleteCheck
  \/ DeleteRecipeDoc
  \/ DeletePullSaved
  \/ DeleteImage
  \/ ToggleRequest
  \/ ToggleCheck
  \/ ToggleUpdateRecipe
  \/ ToggleUpdateUser
  \/ StartTransaction
  \/ CommitTransaction
  \/ ReturnResult
  \/ CatchAbortRethrow
  \/ EndSession
  \/ Finish(FALSE)
  \/ ConcurrentToggleCommits
  \/ ConcurrentDeleteCommits

SpecBookmarks == InitBookmarks /\ [][NextBookmarks]_vars

\* C40: no dangling bookmark: whatever createRecipe, toggleSaveRecipe and
\* deleteRecipe runs have happened and however they interleaved (a toggle of
\* a recipe next to the delete of that recipe included), no user's
\* savedRecipes holds the id of a recipe that does not exist.
C40_NoDanglingBookmark ==
  \A u \in DOMAIN users : users[u].savedRecipes \subseteq DOMAIN recipes

\* a toggle whose recipe was deleted by a concurrent run after the toggle
\* had read it
C40_Witness ==
  /\ req.handler = "toggleSaveRecipe"
  /\ pc = "done"
  /\ err = "WriteConflict"
  /\ req.recipeId \in DOMAIN pre.recipes
  /\ req.recipeId \in deleted
  /\ req.recipeId \notin DOMAIN recipes

====
